---- MODULE Spec2Model ----
(***************************************************************************)
(* The scenario execution engine of the QA agent (src/qa_agent/agent.py):  *)
(* session lifecycle (_get_session), step execution (run_step_in_session), *)
(* the scenario runner (run_scenario), the suite runner (run_suite) and    *)
(* the one-shot convenience operations.  The agent is one coroutine; every *)
(* await on the automation channel is a suspension point, modelled as a    *)
(* value of pc at which the collaborator answers, raises, or the task is   *)
(* cancelled.                                                              *)
(***************************************************************************)
EXTENDS Integers, Sequences, FiniteSets, TLC

(* ------------------------------ bounds -------------------------------- *)
\* most TestSteps of a scenario handed directly to run_scenario
MaxScenarioSteps == 3
\* most scenarios of a suite handed to run_suite
MaxScenarios == 2
\* most TestSteps of all scenarios of a suite together
MaxSuiteSteps == 2

(* ------------------------------ strings ------------------------------- *)
\* A string is a sequence of characters; str.lower() maps each character.
LowerChar(c) ==
    CASE c = "A" -> "a" [] c = "B" -> "b" [] c = "D" -> "d" [] c = "E" -> "e"
      [] c = "I" -> "i" [] c = "L" -> "l" [] c = "T" -> "t" [] c = "V" -> "v"
      [] OTHER -> c

Lower(s) == [i \in DOMAIN s |-> LowerChar(s[i])]

\* Python's `needle in hay` on strings
IsSubstring(needle, hay) ==
    \E i \in 0..(Len(hay) - Len(needle)) :
        \A j \in 1..Len(needle) : hay[i + j] = needle[j]

(* --------------------------- Python values ---------------------------- *)
\* Python values: int, bool, float (of which nan), str and None
IntVal(n) == [type |-> "int", val |-> n]

BoolVal(b) == [type |-> "bool", val |-> b]

NaN == [type |-> "float", val |-> "nan"]

StrVal(s) == [type |-> "str", val |-> s]

NoneVal == [type |-> "none", val |-> "None"]

PyValues ==
    {IntVal(0), IntVal(1), IntVal(2), BoolVal(TRUE), NaN, NoneVal,
     StrVal(<<>>), StrVal(<<"a">>), StrVal(<<"a", "b">>), StrVal(<<"1">>)}

IsNumber(v) == v.type \in {"int", "bool", "float"}

IsNaN(v) == v.type = "float" /\ v.val = "nan"

\* the number a bool or an int stands for in a comparison
Num(v) == IF v.type = "bool" THEN (IF v.val THEN 1 ELSE 0) ELSE v.val

\* x == y
PyEq(x, y) ==
    IF IsNumber(x) /\ IsNumber(y)
    THEN ~IsNaN(x) /\ ~IsNaN(y) /\ Num(x) = Num(y)
    ELSE IF x.type = "str" /\ y.type = "str" THEN x.val = y.val
    ELSE x.type = "none" /\ y.type = "none"

\* PyNe as it would be if nan were not unequal to itself
PyNeOrdered(x, y) ==
    IF IsNumber(x) /\ IsNumber(y)
    THEN ~IsNaN(x) /\ ~IsNaN(y) /\ Num(x) # Num(y)
    ELSE IF x.type = "str" /\ y.type = "str"
         THEN Len(x.val) # Len(y.val) \/ \E i \in DOMAIN x.val : x.val[i] # y.val[i]
    ELSE ~(x.type = "none" /\ y.type = "none")

\* x != y: numbers differ or one is nan, strings differ in length or in a
\* character, and values of unrelated types are unequal
PyNe(x, y) ==
    IF IsNumber(x) /\ IsNumber(y)
    THEN IsNaN(x) \/ IsNaN(y) \/ Num(x) # Num(y)
    ELSE IF x.type = "str" /\ y.type = "str"
         THEN Len(x.val) # Len(y.val) \/ \E i \in DOMAIN x.val : x.val[i] # y.val[i]
    ELSE ~(x.type = "none" /\ y.type = "none")

\* x <= y on numbers (False when one is nan)
PyLe(x, y) == ~IsNaN(x) /\ ~IsNaN(y) /\ Num(x) <= Num(y)

\* bool(value)
Truthy(v) ==
    CASE v.type = "int" -> v.val # 0
      [] v.type = "bool" -> v.val
      [] v.type = "float" -> TRUE
      [] v.type = "str" -> v.val # <<>>
      [] v.type = "none" -> FALSE

(* ----------------------------- data model ----------------------------- *)
\* TestStep records (the fields the executor consults, and retry_count)
NavigateStep ==
    [action |-> "navigate", target |-> <<"a", "/", "B">>,
     critical |-> TRUE, screenshot_on_failure |-> TRUE, retry_count |-> 0]

ClickStep ==
    [action |-> "click", target |-> <<"#", "b">>,
     critical |-> FALSE, screenshot_on_failure |-> FALSE, retry_count |-> 0]

AssertUrlStep ==
    [action |-> "assert_url", target |-> <<"/", "b">>,
     critical |-> FALSE, screenshot_on_failure |-> TRUE, retry_count |-> 0]

StepPool == {NavigateStep, ClickStep, AssertUrlStep}

RECURSIVE SeqsUpTo(_, _)
SeqsUpTo(S, n) ==
    IF n = 0 THEN {<<>>}
    ELSE LET shorter == SeqsUpTo(S, n - 1)
         IN  shorter \cup {Append(s, x) : s \in {t \in shorter : Len(t) = n - 1}, x \in S}

ScenarioSize(sc) == Len(sc.setup_steps) + Len(sc.steps) + Len(sc.teardown_steps)

\* TestScenario.timeout when none is given
DefaultTimeout == 300000

\* TestScenario values with at most n steps in all
ScenariosUpTo(n) ==
    {sc \in [setup_steps : SeqsUpTo(StepPool, n), steps : SeqsUpTo(StepPool, n),
             teardown_steps : SeqsUpTo(StepPool, n), timeout : {DefaultTimeout}] :
        ScenarioSize(sc) <= n}

\* TestSuite.scenarios values: at most MaxScenarios scenarios, MaxSuiteSteps steps
RECURSIVE SuitesOf(_, _)
SuitesOf(k, n) ==
    IF k = 0 THEN {<<>>}
    ELSE {<<>>} \cup
         UNION {{<<sc>> \o rest : rest \in SuitesOf(k - 1, n - ScenarioSize(sc))} :
                sc \in ScenariosUpTo(n)}

Suites == SuitesOf(MaxScenarios, MaxSuiteSteps)

\* the convenience methods of the agent that open a session of their own
OneShotOps ==
    {"navigate", "screenshot", "get_content", "click", "type_text", "wait", "scroll",
     "assert_text_present"}

(* ------------------------------- state -------------------------------- *)
VARIABLES
    entry,         \* the agent method the caller invoked ("none" before the call)
    scenarios,     \* suite.scenarios (run_suite) or <<scenario>> (run_scenario)
    pc,            \* where the coroutine is suspended or standing
    cur,           \* index in scenarios of the scenario run_scenario is executing
    phase,         \* which loop of run_scenario is running: setup, steps, teardown
    idx,           \* position of that loop in its step list
    step_results,  \* run_scenario's local list of StepResult
    test_results,  \* self.test_results
    results,       \* run_suite's local list
    session,       \* the session bound by `async with self._get_session()`, 0 if none
    opened,        \* number of channels stdio_client has opened so far
    open,          \* the channels that are open now
    log,           \* what has happened on the channels, in order
    current_url,   \* self.current_url
    result,        \* run_step_in_session's StepResult while it awaits the failure
                   \* screenshot (NoResult otherwise)
    tape,          \* what the collaborator answered to each invocation of a step
                   \* (kept by the specifications whose properties read it)
    flags,         \* parallel and stop_on_failure of the TestSuite given to run_suite
    first,         \* what an earlier run of the same suite did (SpecPair)
    assertions,    \* self.assertions, an Assertions object: soft_mode and failures
    io,            \* the calls made on the library (assertions.py, scenarios.py)
                   \* and on the browser server, and what each returned, in order
    given,         \* how many scenarios earlier calls on the agent were given:
                   \* those of the call being served are scenarios[given + 1 ..]
    page           \* the global `page` of the browser server process of the last
                   \* channel opened (in the specifications where the server
                   \* answers; the others take its answers from a set)

vars == <<entry, scenarios, pc, cur, phase, idx, step_results, test_results,
          results, session, opened, open, log, current_url, result, tape, flags,
          first, assertions, io, given, page>>

\* TestSuite.parallel and TestSuite.stop_on_failure when none is given
DefaultFlags == [parallel |-> FALSE, stop_on_failure |-> FALSE]

\* no earlier run is being compared with
NoFirst == [done |-> FALSE]

\* Assertions.__init__
NewAssertions == [soft_mode |-> FALSE, failures |-> <<>>]

\* page = None in mcp_browser_server.py
NoPage == [exists |-> FALSE, url |-> <<>>]

\* the page b.new_page() gives: nothing is loaded in it
BlankPage == [exists |-> TRUE, url |-> <<"about:blank">>]

\* no StepResult is being built
NoResult == [status |-> "none"]

\* log entries of events that belong to no step
NoRef == [phase |-> "none", index |-> 0]

(* ------------------------- collaborator answers ----------------------- *)
\* the content parts of a CallToolResult: TextContent, ImageContent, and parts
\* with neither a text nor a data attribute (EmbeddedResource)
TextPart(t) == [type |-> "text", text |-> t]

ImagePart == [type |-> "image", data |-> "png", mimeType |-> "image/png"]

ResourcePart == [type |-> "resource"]

\* the literal "Error:" (one character of the model's strings)
ErrorMarker == <<"Error:">>

\* session.call_tool returns a CallToolResult
Returns(isError, content) == [raises |-> FALSE, isError |-> isError, content |-> content]

\* session.call_tool raises
Raises == [raises |-> TRUE]

\* what the server answers when a tool succeeded, and when its handler raised
OkResult == Returns(FALSE, <<TextPart(<<"o", "k">>)>>)

ErrorResult == Returns(FALSE, <<TextPart(<<"Error:", "x">>)>>)

\* what session.call_tool can do: raise, or return one of these results
Replies == {Raises, OkResult, ErrorResult}

\* the suspension points of the coroutine
AwaitPoints == {"opening", "initializing", "await_tool", "await_shot", "await_oneshot"}

PhaseSteps(sc, ph) ==
    CASE ph = "setup" -> sc.setup_steps
      [] ph = "steps" -> sc.steps
      [] ph = "teardown" -> sc.teardown_steps

CurStep == PhaseSteps(scenarios[cur], phase)[idx]

Init ==
    /\ entry = "none"
    /\ scenarios = <<>>
    /\ pc = "idle"
    /\ cur = 0
    /\ phase = "none"
    /\ idx = 0
    /\ step_results = <<>>
    /\ test_results = <<>>
    /\ results = <<>>
    /\ session = 0
    /\ opened = 0
    /\ open = {}
    /\ log = <<>>
    /\ current_url = <<>>
    /\ result = NoResult
    /\ tape = <<>>
    /\ flags = DefaultFlags
    /\ first = NoFirst
    /\ assertions = NewAssertions
    /\ io = <<>>
    /\ given = 0
    /\ page = NoPage

(* ------------------------------ sessions ------------------------------ *)
\* SessionArg as it would be if a step were run on a session of its own
SessionArgOther == opened + 1

\* the session argument every _call_tool_in_session of the with-block receives
SessionArg == session

\* step.value and step.timeout, None in a TestStep made without them
ValueOf(step) == IF "value" \in DOMAIN step THEN step.value ELSE NoneVal

TimeoutOf(step) == IF "timeout" \in DOMAIN step THEN step.timeout ELSE NoneVal

\* the timeout of a wait and the amount of a scroll when the step gives none
DefaultWait == 1000

DefaultScroll == 500

\* `x or y`
Or(x, y) == IF Truthy(x) THEN x ELSE y

\* Arguments as it would be if only a missing timeout were replaced
ArgumentsNoneOnly(step, tool) ==
    CASE tool = "browser_navigate" -> [url |-> StrVal(step.target)]
      [] tool = "browser_click" -> [selector |-> StrVal(step.target)]
      [] tool = "browser_type" ->
            [selector |-> StrVal(step.target),
             text |-> Or(ValueOf(step), StrVal(<<>>))]
      [] tool = "browser_wait" ->
            [selector |-> IF step.target # <<>> THEN StrVal(step.target) ELSE NoneVal,
             timeout |-> IF TimeoutOf(step) = NoneVal THEN IntVal(DefaultWait)
                         ELSE TimeoutOf(step)]
      [] tool = "browser_scroll" ->
            [direction |-> Or(ValueOf(step), StrVal(<<"d", "o", "w", "n">>)),
             amount |-> IF TimeoutOf(step) = NoneVal THEN IntVal(DefaultScroll)
                        ELSE TimeoutOf(step)]
      [] OTHER -> [none |-> TRUE]

\* the arguments run_step_in_session passes with the tool name ({} is the
\* record with the one field none)
Arguments(step, tool) ==
    CASE tool = "browser_navigate" -> [url |-> StrVal(step.target)]
      [] tool = "browser_click" -> [selector |-> StrVal(step.target)]
      [] tool = "browser_type" ->
            [selector |-> StrVal(step.target),
             text |-> Or(ValueOf(step), StrVal(<<>>))]
      [] tool = "browser_wait" ->
            [selector |-> IF step.target # <<>> THEN StrVal(step.target) ELSE NoneVal,
             timeout |-> Or(TimeoutOf(step), IntVal(DefaultWait))]
      [] tool = "browser_scroll" ->
            [direction |-> Or(ValueOf(step), StrVal(<<"d", "o", "w", "n">>)),
             amount |-> Or(TimeoutOf(step), IntVal(DefaultScroll))]
      [] OTHER -> [none |-> TRUE]

\* session.call_tool(name, arguments) is sent on the channel
Invoke(tool) ==
    log' = Append(log, [ev |-> "call", session |-> SessionArg, tool |-> tool,
                        scenario |-> cur, ref |-> [phase |-> phase, index |-> idx],
                        args |-> Arguments(PhaseSteps(scenarios[cur], phase)[idx], tool)])

\* Teardown as it would be if the channel were left open on exit
TeardownLeaks(sid) ==
    /\ open' = open
    /\ log' = log

\* leaving the `async with` of _get_session closes the channel
Teardown(sid) ==
    /\ open' = open \ {sid}
    /\ log' = Append(log, [ev |-> "close", session |-> sid, tool |-> "",
                           scenario |-> cur, ref |-> NoRef])

\* ChannelId as it would be if the agent kept its first session for later calls
ChannelIdKept == IF opened = 0 THEN 1 ELSE opened

\* the channel stdio_client opens is a new one on every entry of _get_session
ChannelId == opened + 1

\* PageAtSpawn as it would be if the server of the session before served the
\* new session too
PageAtSpawnKept == page

\* stdio_client(server_params) starts a server process of its own, whose
\* module globals are the initial ones: page = None
PageAtSpawn == NoPage

\* UrlAtOpen as it would be if a new session began with no address
UrlAtOpenReset == <<>>

\* self.current_url when a session is opened: neither _get_session nor
\* run_scenario assigns to it
UrlAtOpen == current_url

\* stdio_client has opened the channel; session.initialize() is sent
OpenChannel ==
    /\ pc = "opening"
    /\ current_url' = UrlAtOpen
    /\ page' = PageAtSpawn
    /\ opened' = opened + 1
    /\ open' = open \cup {ChannelId}
    /\ log' = Append(log, [ev |-> "open", session |-> ChannelId, tool |-> "",
                           scenario |-> cur, ref |-> NoRef])
    /\ pc' = "initializing"
    /\ UNCHANGED <<entry, scenarios, cur, phase, idx, step_results, test_results,
                   results, session, result, tape, flags, first,
                   assertions, io, given>>

\* stdio_client raises: nothing was opened, the exception leaves the `async with`
\* statement, which is outside run_scenario's try block, and leaves run_suite too
OpenChannelFails ==
    /\ pc = "opening"
    /\ pc' = "raised"
    /\ UNCHANGED <<entry, scenarios, cur, phase, idx, step_results, test_results,
                   results, session, opened, open, log, current_url, result, tape,
                   flags, first, assertions, io, given, page>>

\* initialize() raises: the two context managers close the channel, then as above
InitializeFails ==
    /\ pc = "initializing"
    /\ Teardown(opened)
    /\ pc' = "raised"
    /\ UNCHANGED <<entry, scenarios, cur, phase, idx, step_results, test_results,
                   results, session, opened, current_url, result, tape,
                   flags, first, assertions, io, given, page>>

\* the task is cancelled while suspended: CancelledError is a BaseException, so
\* no `except Exception` catches it; it unwinds through the context managers of
\* _get_session, which close the channel, and leaves run_scenario and run_suite
Cancel ==
    /\ pc \in AwaitPoints
    /\ IF pc = "opening" THEN UNCHANGED <<open, log>> ELSE Teardown(opened)
    /\ pc' = "cancelled"
    /\ UNCHANGED <<entry, scenarios, cur, phase, idx, step_results, test_results,
                   results, session, opened, current_url, result, tape,
                   flags, first, assertions, io, given, page>>

(* ---------------------- _call_tool_in_session ------------------------- *)
\* the parts _call_tool_in_session copies into response["content"], in order
RECURSIVE Normalize(_)
Normalize(parts) ==
    IF parts = <<>> THEN <<>>
    ELSE IF Head(parts).type \in {"text", "image"}
         THEN <<Head(parts)>> \o Normalize(Tail(parts))
         ELSE Normalize(Tail(parts))

\* the text parts of a result that carry the marker
ErrorTexts(parts) ==
    {i \in DOMAIN parts :
        parts[i].type = "text" /\ IsSubstring(ErrorMarker, parts[i].text)}

\* the response _call_tool_in_session builds from the result of call_tool; the
\* "error" key is absent (here <<>>, what .get("error", "") reads) unless a text
\* carries the marker, and then holds the last such text
CallToolInSession(res) ==
    LET errs == ErrorTexts(res.content)
    IN  [success |-> errs = {},
         content |-> Normalize(res.content),
         error |-> IF errs = {} THEN <<>>
                   ELSE res.content[CHOOSE i \in errs : \A j \in errs : j <= i].text]

(* --------------------------- step execution --------------------------- *)
ToolOf(action) ==
    CASE action = "navigate" -> "browser_navigate"
      [] action = "click" -> "browser_click"
      [] action = "assert_text" -> "browser_get_content"
      [] action = "assert_element" -> "browser_get_html"
      [] action = "assert_title" -> "browser_get_html"
      [] action = "get_content" -> "browser_get_content"
      [] action = "assert_text_present" -> "browser_get_content"
      [] action = "screenshot" -> "browser_screenshot"
      [] action = "type_text" -> "browser_type"
      [] action = "type" -> "browser_type"
      [] action = "wait" -> "browser_wait"
      [] action = "scroll" -> "browser_scroll"

\* the actions the if-chain of run_step_in_session names
DispatchedActions ==
    {"navigate", "click", "type", "wait", "scroll", "screenshot", "assert_text",
     "assert_element", "assert_url", "assert_title"}

\* those of them, among the actions of the model's steps, that invoke a tool
InvokingActions ==
    {"navigate", "click", "type", "wait", "scroll", "screenshot", "assert_text",
     "assert_element", "assert_title"}

\* str(e) of an exception caught by run_step_in_session
ExceptionMessage == <<"exc">>

\* AfterStep as it would be without the `break` of the main loop
AfterStepMainGoesOn(ph, status, step) ==
    IF status # "passed" /\ step.critical /\ ph = "setup" THEN "abort" ELSE "next"

\* AfterStep as it would be without the `raise` of the setup loop
AfterStepSetupGoesOn(ph, status, step) ==
    IF status # "passed" /\ step.critical /\ ph = "steps" THEN "break" ELSE "next"

\* AfterStep as it would be if the teardown loop raised on a critical step too
AfterStepTeardownAborts(ph, status, step) ==
    IF status # "passed" /\ step.critical
    THEN IF ph = "steps" THEN "break" ELSE "abort"
    ELSE "next"

\* AfterStep as it would be if a critical step stopped its phase whatever its status
AfterStepCriticalStops(ph, status, step) ==
    IF step.critical
    THEN CASE ph = "setup" -> "abort"
           [] ph = "steps" -> "break"
           [] ph = "teardown" -> "next"
    ELSE "next"

\* AfterStep as it would be if any non-passing step stopped its phase
AfterStepAnyFailureStops(ph, status, step) ==
    IF status # "passed"
    THEN CASE ph = "setup" -> "abort"
           [] ph = "steps" -> "break"
           [] ph = "teardown" -> "next"
    ELSE "next"

\* run_scenario after `step_results.append(result)`: what the loop of the phase does
AfterStep(ph, status, step) ==
    IF status # "passed" /\ step.critical
    THEN CASE ph = "setup" -> "abort"
           [] ph = "steps" -> "break"
           [] ph = "teardown" -> "next"
    ELSE "next"

\* NextIndex as it would be if the loop took the same step again
NextIndexStays(i) == i

\* NextIndex as it would be if the loop passed over every other step
NextIndexSkips(i) == i + 2

\* the for loops of run_scenario go from one step to the next
NextIndex(i) == i + 1

\* StepOfResult as it would be if the executor cleared the critical mark of the
\* step it was given
StepOfResultUnmarked(step) == [step EXCEPT !.critical = FALSE]

\* StepResult(step=step, ...): the result refers to the step it was given, and
\* no statement of the executor assigns to a field of the step
StepOfResult(step) == step

\* run_step_in_session returns the StepResult (end_time and duration are set
\* after the try statement, on every path); run_scenario appends it and goes
\* on, breaks out of the main loop, or raises out of setup into its own
\* `except Exception`, after which the with-block is left
FinishStep(status, message, screenshot) ==
    LET sr == [step |-> StepOfResult(CurStep), ref |-> [phase |-> phase, index |-> idx],
               status |-> status, message |-> message, screenshot |-> screenshot,
               end_time |-> "set"]
        act == AfterStep(phase, status, CurStep)
    IN  /\ step_results' = Append(step_results, sr)
        /\ pc' = IF act = "abort" THEN "closing" ELSE "loop"
        /\ phase' = IF act = "break" THEN "teardown" ELSE phase
        /\ idx' = IF act = "break" THEN 1 ELSE IF act = "abort" THEN idx
                  ELSE NextIndex(idx)
        /\ result' = NoResult

\* StepRaises as it would be if the handler classified the step as failed
StepRaisesAsFailed == FinishStep("failed", ExceptionMessage, "")

\* an exception inside the try statement: status 'error', message str(e)
StepRaises == FinishStep("error", ExceptionMessage, "")

\* action_result is known: status and message are set, and one more screenshot
\* is asked for when the status is failed and screenshot_on_failure is set
ClassifyStep(action_result) ==
    LET status == IF action_result.success THEN "passed" ELSE "failed"
    IN  IF status = "failed" /\ CurStep.screenshot_on_failure
        THEN /\ Invoke("browser_screenshot")
             /\ pc' = "await_shot"
             /\ result' = [status |-> status, message |-> action_result.error]
             /\ UNCHANGED <<step_results, phase, idx>>
        ELSE /\ FinishStep(status, action_result.error, "")
             /\ UNCHANGED log

\* run_step_in_session for the actions that invoke a tool: the invocation is sent
RunStepInvoke ==
    /\ pc = "loop"
    /\ idx <= Len(PhaseSteps(scenarios[cur], phase))
    /\ CurStep.action \in InvokingActions
    /\ Invoke(ToolOf(CurStep.action))
    /\ pc' = "await_tool"
    /\ UNCHANGED <<entry, scenarios, cur, phase, idx, step_results, test_results,
                   results, session, opened, open, current_url, result, tape,
                   flags, first, assertions, io, given, page>>

\* AssertUrlPasses as it would be without the two lower() calls
AssertUrlPassesCaseSensitive(step) == IsSubstring(step.target, current_url)

\* assert_url: step.target.lower() in self.current_url.lower()
AssertUrlPasses(step) == IsSubstring(Lower(step.target), Lower(current_url))

\* LocalResult as it would be if the if-chain had no else branch that fails
LocalResultUnknownPasses(step) ==
    IF step.action = "assert_url"
    THEN [success |-> AssertUrlPasses(step), error |-> <<>>]
    ELSE [success |-> TRUE, error |-> <<>>]

\* the action_result of the actions decided without an invocation
LocalResult(step) ==
    IF step.action = "assert_url"
    THEN [success |-> AssertUrlPasses(step), error |-> <<>>]
    ELSE [success |-> FALSE, error |-> <<"Unknown action: ", step.action>>]

\* run_step_in_session for assert_url and for unknown actions
RunStepLocal ==
    /\ pc = "loop"
    /\ idx <= Len(PhaseSteps(scenarios[cur], phase))
    /\ CurStep.action = "assert_url" \/ CurStep.action \notin DispatchedActions
    /\ ClassifyStep(LocalResult(CurStep))
    /\ UNCHANGED <<entry, scenarios, cur, test_results, results, session, opened,
                   open, current_url, tape, flags, first, assertions, io, given, page>>

\* UrlAfter as it would be if navigate stored the target whatever the response
UrlAfterAnyNavigate(step, response) ==
    IF step.action = "navigate" THEN step.target ELSE current_url

\* self.current_url after the invocation of a step has returned
UrlAfter(step, response) ==
    IF step.action = "navigate" /\ response.success THEN step.target ELSE current_url

\* content[0].get("text", "") of a response with content
FirstText(response) ==
    IF response.content[1].type = "text" THEN response.content[1].text ELSE <<>>

\* _selector_matches_html: an id selector by its attribute in either quoting, a
\* class selector by `class="` and the class name anywhere, any other selector
\* as the beginning of a tag
SelectorMatchesHtml(selector, html) ==
    IF selector # <<>> /\ selector[1] = "#"
    THEN \/ IsSubstring(<<"i", "d", "=", "\"">> \o Tail(selector) \o <<"\"">>, html)
         \/ IsSubstring(<<"i", "d", "=", "'">> \o Tail(selector) \o <<"'">>, html)
    ELSE IF selector # <<>> /\ selector[1] = "."
    THEN IsSubstring(<<"c", "l", "a", "s", "s", "=", "\"">>, html)
         /\ IsSubstring(Tail(selector), html)
    ELSE IsSubstring(<<"<">> \o selector, Lower(html))

TitleOpen == <<"<", "t", "i", "t", "l", "e", ">">>

TitleClose == <<"<", "/", "t", "i", "t", "l", "e", ">">>

\* pattern is at position i of s
IsAt(pattern, s, i) ==
    /\ i + Len(pattern) - 1 <= Len(s)
    /\ \A j \in 1..Len(pattern) : s[i + j - 1] = pattern[j]

\* the places where re.search(r"<title>(.*?)</title>", html, re.IGNORECASE) can
\* match: an opening tag at i and a closing tag at j in either case, with no
\* line break between them
TitleMatches(html) ==
    {m \in (1..Len(html)) \X (1..Len(html)) :
        /\ IsAt(TitleOpen, Lower(html), m[1])
        /\ m[2] >= m[1] + Len(TitleOpen)
        /\ IsAt(TitleClose, Lower(html), m[2])
        /\ \A k \in (m[1] + Len(TitleOpen))..(m[2] - 1) : html[k] # "\n"}

\* group(1) of the match: the leftmost opening tag that has a match, up to the
\* nearest closing tag
TitleOf(html) ==
    LET m == CHOOSE m \in TitleMatches(html) :
                 \A n \in TitleMatches(html) :
                     m[1] < n[1] \/ (m[1] = n[1] /\ m[2] <= n[2])
    IN  SubSeq(html, m[1] + Len(TitleOpen), m[2] - 1)

\* the action_result of the actions that invoke a tool, from its response
InvokedResult(step, response) ==
    CASE step.action = "assert_text" ->
            IF response.success /\ response.content # <<>>
            THEN LET page_content == IF response.content[1].type = "text"
                                     THEN response.content[1].text ELSE <<>>
                 IN  [success |-> IsSubstring(Lower(step.target), Lower(page_content)),
                      error |-> <<>>]
            ELSE [success |-> FALSE, error |-> <<"Could not get page content">>]
      [] step.action = "assert_element" ->
            IF response.success /\ response.content # <<>>
            THEN [success |-> SelectorMatchesHtml(step.target, FirstText(response)),
                  error |-> <<>>]
            ELSE [success |-> FALSE, error |-> <<"Could not get page HTML">>]
      [] step.action = "assert_title" ->
            IF response.success /\ response.content # <<>>
            THEN IF TitleMatches(FirstText(response)) # {}
                 THEN [success |-> IsSubstring(Lower(step.target),
                                               Lower(TitleOf(FirstText(response)))),
                       error |-> <<>>]
                 ELSE [success |-> FALSE, error |-> <<"No title found">>]
            ELSE [success |-> FALSE, error |-> <<"Could not get page HTML">>]
      [] OTHER -> [success |-> response.success, error |-> response.error]

\* what is kept of one answer: the step and invocation it answers, the answer,
\* the response made of it, and whether the image file was written
TapeEntry(kind, reply, saved) ==
    [ref |-> [phase |-> phase, index |-> idx], kind |-> kind, reply |-> reply,
     response |-> IF reply.raises THEN [success |-> FALSE]
                  ELSE CallToolInSession(reply),
     saved |-> saved]

\* what a specification does with the tape (keep): nothing ("none"), write
\* every answer on it ("record"), or answer from it, the way the collaborator
\* and the file system answered an earlier run ("replay")
TapeAfter(keep, answer) ==
    CASE keep = "record" -> Append(tape, answer)
      [] keep = "replay" -> IF tape = <<>> THEN tape ELSE Tail(tape)
      [] OTHER -> tape

\* the answers an invocation can get
Answers(replies, keep) ==
    IF keep = "replay" /\ tape # <<>> THEN {Head(tape).reply} ELSE replies

\* whether the write of the image file succeeds
Writes(keep) ==
    IF keep = "replay" /\ tape # <<>> /\ Head(tape).saved # "none"
    THEN {Head(tape).saved = "yes"} ELSE BOOLEAN

\* a screenshot step whose response is a success with an image part writes the
\* first image to a file (_save_screenshot) inside the try statement
SavesStepImage(step, response) ==
    /\ step.action = "screenshot"
    /\ response.success
    /\ \E i \in DOMAIN response.content : response.content[i].type = "image"

\* the awaited invocation raises or returns a result out of replies; a
\* screenshot step then writes the image file, or raises in trying
ToolReturnsFrom(replies, keep) ==
    /\ pc = "await_tool"
    /\ \E reply \in Answers(replies, keep) :
         IF reply.raises
         THEN /\ StepRaises
              /\ tape' = TapeAfter(keep, TapeEntry("primary", reply, "none"))
              /\ UNCHANGED <<log, current_url>>
         ELSE LET response == CallToolInSession(reply)
              IN  IF SavesStepImage(CurStep, response)
                  THEN \E saved \in Writes(keep) :
                          /\ IF saved
                             THEN FinishStep("passed", response.error, "path")
                             ELSE StepRaises
                          /\ tape' = TapeAfter(keep, TapeEntry("primary", reply,
                                                 IF saved THEN "yes" ELSE "no"))
                          /\ UNCHANGED <<log, current_url>>
                  ELSE /\ tape' = TapeAfter(keep, TapeEntry("primary", reply, "none"))
                       /\ current_url' = UrlAfter(CurStep, response)
                       /\ ClassifyStep(InvokedResult(CurStep, response))
    /\ UNCHANGED <<entry, scenarios, cur, test_results, results, session, opened, open,
                   flags, first, assertions, io, given, page>>

ToolReturns == ToolReturnsFrom(Replies, "none")

\* the failure screenshot raises or returns out of replies; when it returns an
\* image, _save_screenshot writes the file or raises; whatever raises does so
\* inside the try statement of the step
ShotReturnsFrom(replies, keep) ==
    /\ pc = "await_shot"
    /\ \E reply \in Answers(replies, keep) :
         IF reply.raises
         THEN /\ StepRaises
              /\ tape' = TapeAfter(keep, TapeEntry("shot", reply, "none"))
         ELSE LET response == CallToolInSession(reply)
                  image == response.success
                           /\ \E i \in DOMAIN response.content :
                                 response.content[i].type = "image"
              IN  IF image
                  THEN \E saved \in Writes(keep) :
                          /\ IF saved
                             THEN FinishStep(result.status, result.message, "path")
                             ELSE StepRaises
                          /\ tape' = TapeAfter(keep, TapeEntry("shot", reply,
                                                 IF saved THEN "yes" ELSE "no"))
                  ELSE /\ FinishStep(result.status, result.message, "")
                       /\ tape' = TapeAfter(keep, TapeEntry("shot", reply, "none"))
    /\ UNCHANGED <<entry, scenarios, cur, test_results, results, session, opened,
                   open, log, current_url, flags, first, assertions, io, given, page>>

ShotReturns == ShotReturnsFrom(Replies, "none")

(* -------------------------- scenario runner --------------------------- *)
\* Aggregate as it would be with the two tests in the other order
AggregateFailedFirst(srs) ==
    IF \E i \in DOMAIN srs : srs[i].status = "failed" THEN "failed"
    ELSE IF \E i \in DOMAIN srs : srs[i].status = "error" THEN "error"
    ELSE "passed"

\* Aggregate as it would be if only failed steps counted against a scenario
AggregateIgnoresErrors(srs) ==
    IF \E i \in DOMAIN srs : srs[i].status = "failed" THEN "failed" ELSE "passed"

\* the status run_scenario computes from step_results
Aggregate(srs) ==
    IF \E i \in DOMAIN srs : srs[i].status = "error" THEN "error"
    ELSE IF \E i \in DOMAIN srs : srs[i].status = "failed" THEN "failed"
    ELSE "passed"

\* the caller calls run_scenario(scenario) directly
CallRunScenario ==
    /\ pc = "idle"
    /\ \E sc \in ScenariosUpTo(MaxScenarioSteps) : scenarios' = <<sc>>
    /\ entry' = "run_scenario"
    /\ cur' = 1
    /\ step_results' = <<>>
    /\ pc' = "opening"
    /\ UNCHANGED <<phase, idx, test_results, results, session, opened, open, log,
                   current_url, result, tape, flags, first, assertions, io, given, page>>

\* YieldedSession as it would be if the with-block were given the session of
\* the call before
YieldedSessionBefore == opened - 1

\* `yield session` of _get_session: the session of the channel just opened,
\* after its initialize() has returned
YieldedSession == opened

\* initialize() returned: the with-block is entered with the session
InitializeReturns ==
    /\ pc = "initializing"
    /\ session' = YieldedSession
    /\ IF entry \in OneShotOps
       THEN /\ log' = Append(log, [ev |-> "call", session |-> opened,
                                   tool |-> ToolOf(entry), scenario |-> cur,
                                   ref |-> NoRef])
            /\ pc' = "await_oneshot"
            /\ UNCHANGED <<phase, idx>>
       ELSE /\ phase' = "setup"
            /\ idx' = 1
            /\ pc' = "loop"
            /\ UNCHANGED log
    /\ UNCHANGED <<entry, scenarios, cur, step_results, test_results, results,
                   opened, open, current_url, result, tape, flags, first,
                   assertions, io, given, page>>

\* a for loop of run_scenario has run out of steps
PhaseDone ==
    /\ pc = "loop"
    /\ idx > Len(PhaseSteps(scenarios[cur], phase))
    /\ IF phase = "teardown"
       THEN pc' = "closing" /\ UNCHANGED <<phase, idx>>
       ELSE /\ phase' = IF phase = "setup" THEN "steps" ELSE "teardown"
            /\ idx' = 1
            /\ UNCHANGED pc
    /\ UNCHANGED <<entry, scenarios, cur, step_results, test_results, results,
                   session, opened, open, log, current_url, result, tape,
                   flags, first, assertions, io, given, page>>

\* Recorded as it would be if the newest TestResult were put first
RecordedFirst(list, test_result) == <<test_result>> \o list

\* self.test_results.append(test_result)
Recorded(list, test_result) == Append(list, test_result)

\* the with-block is left normally: the channel is closed, then the TestResult is
\* built, appended to self.test_results and returned (run_suite appends it too)
CloseSession ==
    /\ pc = "closing"
    /\ Teardown(session)
    /\ session' = 0
    /\ LET test_result == [scenario |-> cur, status |-> Aggregate(step_results),
                           step_results |-> step_results]
       IN  /\ test_results' = Recorded(test_results, test_result)
           /\ IF entry = "run_suite"
              THEN results' = Append(results, test_result) /\ pc' = "suite_loop"
              ELSE UNCHANGED results /\ pc' = "returned"
    /\ UNCHANGED <<entry, scenarios, cur, phase, idx, step_results, opened,
                   current_url, result, tape, flags, first, assertions, io, given, page>>

(* ---------------------------- suite runner ---------------------------- *)
\* the caller calls run_suite(suite), the suite having the default flags
CallRunSuite ==
    /\ pc = "idle"
    /\ \E suite \in Suites : scenarios' = suite
    /\ entry' = "run_suite"
    /\ results' = <<>>
    /\ pc' = "suite_loop"
    /\ UNCHANGED <<cur, phase, idx, step_results, test_results, session, opened,
                   open, log, current_url, result, tape, flags, first,
                   assertions, io, given, page>>

\* SuiteLoopPoints as it would be if a parallel suite took its next scenario
\* while the one before is suspended
SuiteLoopPointsParallel ==
    IF flags.parallel THEN AwaitPoints \cup {"suite_loop"} ELSE {"suite_loop"}

\* where the coroutine stands when the for loop of run_suite takes its next
\* scenario: where the awaited run_scenario has returned (or none was called)
SuiteLoopPoints == {"suite_loop"}

\* MoreScenarios as it would be if stop_on_failure ended the loop
MoreScenariosUnlessStopped ==
    /\ cur < Len(scenarios)
    /\ ~(flags.stop_on_failure /\ results # <<>>
            /\ results[Len(results)].status # "passed")

\* the for loop of run_suite has scenarios left
MoreScenarios == cur < Len(scenarios)

\* `for scenario in suite.scenarios`: run_scenario is called for the next one
SuiteNext ==
    /\ pc \in SuiteLoopPoints
    /\ MoreScenarios
    /\ cur' = cur + 1
    /\ step_results' = <<>>
    /\ pc' = "opening"
    /\ UNCHANGED <<entry, scenarios, phase, idx, test_results, results, session,
                   opened, open, log, current_url, result, tape, flags, first,
                   assertions, io, given, page>>

\* the loop is over: the report is generated and results is returned
SuiteReturn ==
    /\ pc = "suite_loop"
    /\ ~MoreScenarios
    /\ pc' = "returned"
    /\ UNCHANGED <<entry, scenarios, cur, phase, idx, step_results, test_results,
                   results, session, opened, open, log, current_url, result, tape,
                   flags, first, assertions, io, given, page>>

(* ------------------------- one-shot operations ------------------------ *)
\* navigate(url), screenshot(), get_content(), click(selector), type_text(..),
\* wait(..), scroll(..): each enters _get_session itself
CallOneShot ==
    /\ pc = "idle"
    /\ \E op \in OneShotOps : entry' = op
    /\ pc' = "opening"
    /\ UNCHANGED <<scenarios, cur, phase, idx, step_results, test_results, results,
                   session, opened, open, log, current_url, result, tape,
                   flags, first, assertions, io, given, page>>

\* screenshot() writes the first image part of a successful response to a file
SavesImage(op, reply) ==
    /\ op = "screenshot"
    /\ ~reply.raises
    /\ CallToolInSession(reply).success
    /\ \E i \in DOMAIN reply.content : reply.content[i].type = "image"

\* the one invocation answers or raises, out of replies, and the write of the
\* image file succeeds or raises; either way the with-block is left
OneShotAnswered(reply) ==
    /\ pc = "await_oneshot"
    /\ current_url' = IF entry = "navigate" /\ ~reply.raises
                            /\ CallToolInSession(reply).success
                      THEN NavigateStep.target ELSE current_url
    /\ \E saved \in (IF SavesImage(entry, reply) THEN BOOLEAN ELSE {TRUE}) :
          pc' = IF reply.raises \/ ~saved THEN "raised" ELSE "returned"
    /\ Teardown(session)
    /\ session' = 0
    /\ UNCHANGED <<entry, scenarios, cur, phase, idx, step_results, test_results,
                   results, opened, tape, flags, first, assertions, given>>

\* the invocation of a one-shot operation is answered out of replies
OneShotReturnsFrom(replies) ==
    /\ \E reply \in replies : OneShotAnswered(reply)
    /\ UNCHANGED <<result, io, page>>

OneShotReturns == OneShotReturnsFrom(Replies)

(* --------------------------- specification ---------------------------- *)
Next ==
    \/ CallRunScenario
    \/ CallRunSuite
    \/ CallOneShot
    \/ SuiteNext
    \/ SuiteReturn
    \/ OpenChannel
    \/ OpenChannelFails
    \/ InitializeReturns
    \/ InitializeFails
    \/ RunStepInvoke
    \/ RunStepLocal
    \/ ToolReturns
    \/ ShotReturns
    \/ PhaseDone
    \/ CloseSession
    \/ OneShotReturns
    \/ Cancel

Spec == Init /\ [][Next]_vars

(* ----------------- run_scenario on its own: SpecScenario -------------- *)
NextScenario ==
    \/ CallRunScenario
    \/ OpenChannel
    \/ OpenChannelFails
    \/ InitializeReturns
    \/ InitializeFails
    \/ RunStepInvoke
    \/ RunStepLocal
    \/ ToolReturns
    \/ ShotReturns
    \/ PhaseDone
    \/ CloseSession
    \/ Cancel

SpecScenario == Init /\ [][NextScenario]_vars

(* ----------------- step execution on its own: SpecStep ---------------- *)
\* most TestSteps of a scenario whose steps are executed one by one
MaxExecutorSteps == 2

StepOf(action, target, sof) ==
    [action |-> action, target |-> target, critical |-> FALSE,
     screenshot_on_failure |-> sof, retry_count |-> 0]

OtherUrl == <<"c">>

\* navigate steps without a failure screenshot, to two addresses
NavigateSteps ==
    {StepOf("navigate", url, FALSE) : url \in {NavigateStep.target, OtherUrl}}

\* one TestStep of every kind run_step_in_session treats in its own way, with
\* and without screenshot_on_failure; hover is an ActionType the if-chain does
\* not name
ExecutorSteps ==
    {StepOf(a[1], a[2], sof) :
        a \in {<<"navigate", NavigateStep.target>>, <<"navigate", OtherUrl>>,
               <<"click", ClickStep.target>>, <<"assert_text", <<"b">>>>,
               <<"assert_url", AssertUrlStep.target>>, <<"hover", ClickStep.target>>},
        sof \in BOOLEAN}

\* the step lists: navigations (the only steps a later step depends on), then
\* one step of any kind
StepRuns ==
    {prefix \o <<s>> : prefix \in SeqsUpTo(NavigateSteps, MaxExecutorSteps - 1),
                       s \in ExecutorSteps}

\* what session.call_tool can do, by the cases the executor tells apart: page
\* texts with and without the asserted text and the literal "Error:", an empty
\* content, the two parts browser_screenshot answers with, a result flagged
\* isError, and parts of other types
StepReplies ==
    Replies \cup
    {Returns(FALSE, <<>>),
     Returns(FALSE, <<TextPart(<<"a", "B">>)>>),
     Returns(FALSE, <<TextPart(<<"Error:", "B">>)>>),
     Returns(FALSE, <<ImagePart, TextPart(<<"o", "k">>)>>),
     Returns(TRUE, <<TextPart(<<"x">>)>>),
     Returns(FALSE, <<ResourcePart, TextPart(<<"o", "k">>), ImagePart>>)}

\* the caller calls run_scenario with a scenario that has main steps only
CallRunSteps ==
    /\ pc = "idle"
    /\ \E run \in StepRuns :
          scenarios' = <<[setup_steps |-> <<>>, steps |-> run, teardown_steps |-> <<>>,
                          timeout |-> DefaultTimeout]>>
    /\ entry' = "run_scenario"
    /\ cur' = 1
    /\ step_results' = <<>>
    /\ pc' = "opening"
    /\ UNCHANGED <<phase, idx, test_results, results, session, opened, open, log,
                   current_url, result, tape, flags, first, assertions, io, given, page>>

StepToolReturns == ToolReturnsFrom(StepReplies, "record")

StepShotReturns == ShotReturnsFrom(StepReplies, "record")

NextStep ==
    \/ CallRunSteps
    \/ OpenChannel
    \/ InitializeReturns
    \/ RunStepInvoke
    \/ RunStepLocal
    \/ StepToolReturns
    \/ StepShotReturns
    \/ PhaseDone
    \/ CloseSession

SpecStep == Init /\ [][NextStep]_vars

(* ------------- the assertions on the page: SpecPage ------------------- *)
\* pages: one with a title in capitals tags and an element with an id, one
\* without a title and with a class attribute, one whose title is cut by a
\* line break
TitledPage ==
    <<"<", "T", "I", "T", "L", "E", ">", "a", "B">> \o TitleClose
    \o <<"<", "d", "i", "v", " ", "i", "d", "=", "\"", "b", "\"", ">">>

UntitledPage ==
    <<"<", "D", "I", "V", " ", "c", "l", "a", "s", "s", "=", "\"", "b", "\"", ">">>

BrokenTitlePage == TitleOpen \o <<"a", "\n", "b">> \o TitleClose

\* one step of each of the three assertions on the page (assert_element with
\* an id, a class and a tag selector), with and without screenshot_on_failure
PageSteps ==
    {StepOf(a[1], a[2], sof) :
        a \in {<<"assert_text", <<"b">>>>, <<"assert_element", ClickStep.target>>,
               <<"assert_element", <<".", "b">>>>, <<"assert_element", <<"d", "i", "v">>>>,
               <<"assert_title", <<"A", "b">>>>},
        sof \in BOOLEAN}

\* what session.call_tool can do: raise, answer with no content, with a text
\* that carries "Error:", with one of the pages, with an image alone
PageReplies ==
    {Raises, Returns(FALSE, <<>>), ErrorResult, Returns(FALSE, <<ImagePart>>),
     Returns(FALSE, <<TextPart(TitledPage)>>),
     Returns(FALSE, <<TextPart(UntitledPage)>>),
     Returns(FALSE, <<TextPart(BrokenTitlePage)>>)}

\* the caller calls run_scenario with a scenario of one such step
CallRunPageStep ==
    /\ pc = "idle"
    /\ \E step \in PageSteps :
          scenarios' = <<[setup_steps |-> <<>>, steps |-> <<step>>,
                          teardown_steps |-> <<>>, timeout |-> DefaultTimeout]>>
    /\ entry' = "run_scenario"
    /\ cur' = 1
    /\ step_results' = <<>>
    /\ pc' = "opening"
    /\ UNCHANGED <<phase, idx, test_results, results, session, opened, open, log,
                   current_url, result, tape, flags, first, assertions, io, given, page>>

PageToolReturns == ToolReturnsFrom(PageReplies, "record")

PageShotReturns == ShotReturnsFrom(PageReplies, "record")

NextPage ==
    \/ CallRunPageStep
    \/ OpenChannel
    \/ InitializeReturns
    \/ RunStepInvoke
    \/ PageToolReturns
    \/ PageShotReturns
    \/ PhaseDone
    \/ CloseSession

SpecPage == Init /\ [][NextPage]_vars

(* ------------- the arguments of every kind of step: SpecKinds --------- *)
\* a TestStep with its value and its timeout
KindStep(action, target, value, timeout, sof) ==
    [action |-> action, target |-> target, critical |-> FALSE,
     screenshot_on_failure |-> sof, retry_count |-> 0, value |-> value,
     timeout |-> timeout]

\* the timeouts a step is given: none, zero, a number of milliseconds
StepTimeouts == {NoneVal, IntVal(0), IntVal(2)}

\* the values a step is given: none, the empty string, a text
StepValues == {NoneVal, StrVal(<<>>), StrVal(<<"u", "p">>)}

\* one TestStep of every kind the if-chain of run_step_in_session names, the
\* wait and scroll steps with every value and timeout, and a hover step
KindSteps ==
    {KindStep(a[1], a[2], NoneVal, NoneVal, sof) :
        a \in {<<"navigate", NavigateStep.target>>, <<"click", ClickStep.target>>,
               <<"screenshot", <<"s">>>>, <<"assert_text", <<"b">>>>,
               <<"assert_element", ClickStep.target>>, <<"assert_title", <<"A", "b">>>>,
               <<"assert_url", AssertUrlStep.target>>, <<"hover", ClickStep.target>>},
        sof \in BOOLEAN}
    \cup {KindStep("type", ClickStep.target, v, NoneVal, sof) :
            v \in StepValues, sof \in BOOLEAN}
    \cup {KindStep("wait", target, NoneVal, t, sof) :
            target \in {<<>>, ClickStep.target}, t \in StepTimeouts, sof \in BOOLEAN}
    \cup {KindStep("scroll", <<>>, v, t, sof) :
            v \in StepValues, t \in StepTimeouts, sof \in BOOLEAN}

\* the caller calls run_scenario with a scenario of one such step
CallRunKindStep ==
    /\ pc = "idle"
    /\ \E step \in KindSteps :
          scenarios' = <<[setup_steps |-> <<>>, steps |-> <<step>>,
                          teardown_steps |-> <<>>, timeout |-> DefaultTimeout]>>
    /\ entry' = "run_scenario"
    /\ cur' = 1
    /\ step_results' = <<>>
    /\ pc' = "opening"
    /\ UNCHANGED <<phase, idx, test_results, results, session, opened, open, log,
                   current_url, result, tape, flags, first, assertions, io, given, page>>

KindToolReturns == ToolReturnsFrom(StepReplies, "record")

KindShotReturns == ShotReturnsFrom(StepReplies, "record")

NextKinds ==
    \/ CallRunKindStep
    \/ OpenChannel
    \/ InitializeReturns
    \/ RunStepInvoke
    \/ RunStepLocal
    \/ KindToolReturns
    \/ KindShotReturns
    \/ PhaseDone
    \/ CloseSession

SpecKinds == Init /\ [][NextKinds]_vars

(* -------------- one-shot operations in a row: SpecOneShot ------------- *)
\* most sessions opened by the one-shot operations a caller makes in a row
MaxOneShotCalls == 2

\* a one-shot operation has returned, raised or been cancelled, and the caller
\* is about to make another call
OneShotOver ==
    /\ entry \in OneShotOps
    /\ pc \in {"returned", "raised", "cancelled"}
    /\ opened < MaxOneShotCalls
    /\ entry' = "none"
    /\ pc' = "idle"
    /\ UNCHANGED <<scenarios, cur, phase, idx, step_results, test_results, results,
                   session, opened, open, log, current_url, result, tape,
                   flags, first, assertions, io, given, page>>

RichOneShotReturns == OneShotReturnsFrom(StepReplies)

NextOneShot ==
    \/ CallOneShot
    \/ OneShotOver
    \/ OpenChannel
    \/ OpenChannelFails
    \/ InitializeReturns
    \/ InitializeFails
    \/ RichOneShotReturns
    \/ Cancel

SpecOneShot == Init /\ [][NextOneShot]_vars

(* ---------- calls in a row on one agent: SpecCalls -------------------- *)
\* most sessions opened by one-shot calls, and most scenarios handed in, by the
\* calls a caller makes in a row on one agent
MaxSessions == 3

\* scenarios of one main step, a navigate or an assert_url, without failure
\* screenshot
CallScenarios ==
    {[setup_steps |-> <<>>, steps |-> <<StepOf(a[1], a[2], FALSE)>>,
      teardown_steps |-> <<>>, timeout |-> DefaultTimeout] :
        a \in {<<"navigate", NavigateStep.target>>,
               <<"assert_url", AssertUrlStep.target>>}}

\* the caller calls navigate(url)
CallNavigate ==
    /\ pc = "idle"
    /\ opened < MaxSessions
    /\ entry' = "navigate"
    /\ pc' = "opening"
    /\ UNCHANGED <<scenarios, cur, phase, idx, step_results, test_results, results,
                   session, opened, open, log, current_url, result, tape,
                   flags, first, assertions, io, given, page>>

\* the caller calls run_scenario(scenario) on the agent it has used before
CallRunScenarioNext ==
    /\ pc = "idle"
    /\ Len(scenarios) < MaxSessions
    /\ \E sc \in CallScenarios : scenarios' = Append(scenarios, sc)
    /\ given' = Len(scenarios)
    /\ entry' = "run_scenario"
    /\ cur' = Len(scenarios) + 1
    /\ step_results' = <<>>
    /\ pc' = "opening"
    /\ UNCHANGED <<phase, idx, test_results, results, session, opened, open, log,
                   current_url, result, tape, flags, first, assertions, io, page>>

\* the caller calls run_suite(suite) on the agent it has used before
CallRunSuiteNext ==
    /\ pc = "idle"
    /\ Len(scenarios) < MaxSessions
    /\ \E scs \in SeqsUpTo(CallScenarios, MaxSessions - Len(scenarios)) :
          scenarios' = scenarios \o scs
    /\ given' = Len(scenarios)
    /\ entry' = "run_suite"
    /\ cur' = Len(scenarios)
    /\ results' = <<>>
    /\ pc' = "suite_loop"
    /\ UNCHANGED <<phase, idx, step_results, test_results, session, opened, open,
                   log, current_url, result, tape, flags, first, assertions, io,
                   page>>

\* the call has returned or raised: its frame is gone, the agent is as the call
\* left it, and the caller is about to make another call
CallOver ==
    /\ entry # "none"
    /\ pc \in {"returned", "raised"}
    /\ entry' = "none"
    /\ pc' = "idle"
    /\ phase' = "none"
    /\ idx' = 0
    /\ step_results' = <<>>
    /\ results' = <<>>
    /\ UNCHANGED <<scenarios, cur, test_results, session, opened, open, log,
                   current_url, result, tape, flags, first, assertions, io, given,
                   page>>

NextCalls ==
    \/ CallNavigate
    \/ CallRunScenarioNext
    \/ CallRunSuiteNext
    \/ CallOver
    \/ SuiteNext
    \/ SuiteReturn
    \/ OpenChannel
    \/ OpenChannelFails
    \/ InitializeReturns
    \/ RunStepInvoke
    \/ RunStepLocal
    \/ ToolReturns
    \/ PhaseDone
    \/ CloseSession
    \/ OneShotReturns

SpecCalls == Init /\ [][NextCalls]_vars

(* ------------- the same suite run twice: SpecPair --------------------- *)
\* the steps of the suites that are run twice: one that is critical and invokes
\* a tool, and one that is not and invokes none
PairSteps == {NavigateStep, AssertUrlStep}

\* suites of at most k scenarios with main steps only, n steps in all
RECURSIVE PairSuitesOf(_, _)
PairSuitesOf(k, n) ==
    IF k = 0 THEN {<<>>}
    ELSE {<<>>} \cup
         UNION {{<<[setup_steps |-> <<>>, steps |-> steps, teardown_steps |-> <<>>,
                    timeout |-> DefaultTimeout]>> \o rest :
                    rest \in PairSuitesOf(k - 1, n - Len(steps))} :
                steps \in SeqsUpTo(PairSteps, n)}

PairSuites == PairSuitesOf(MaxScenarios, MaxSuiteSteps)

\* the caller calls run_suite(suite) for the first time, with the default flags
CallRunSuiteFirst ==
    /\ pc = "idle"
    /\ \E suite \in PairSuites : scenarios' = suite
    /\ entry' = "run_suite"
    /\ results' = <<>>
    /\ pc' = "suite_loop"
    /\ UNCHANGED <<cur, phase, idx, step_results, test_results, session, opened,
                   open, log, current_url, result, tape, flags, first,
                   assertions, io, given, page>>

\* the values of retry_count, timeout, parallel and stop_on_failure a second
\* run of the suite is given (the same for every step and scenario)
Configs ==
    [retry_count : {0, 1}, timeout : {DefaultTimeout, 1},
     parallel : BOOLEAN, stop_on_failure : BOOLEAN]

Retrying(steps, n) == [k \in DOMAIN steps |-> [steps[k] EXCEPT !.retry_count = n]]

\* suite.scenarios with every retry_count and timeout set as in c
WithConfig(scs, c) ==
    [i \in DOMAIN scs |->
        [setup_steps |-> Retrying(scs[i].setup_steps, c.retry_count),
         steps |-> Retrying(scs[i].steps, c.retry_count),
         teardown_steps |-> Retrying(scs[i].teardown_steps, c.retry_count),
         timeout |-> c.timeout]]

\* the invocations of a log, in order: tool, scenario and step
Invocations(l) ==
    LET calls == SelectSeq(l, LAMBDA e : e.ev = "call")
    IN  [i \in DOMAIN calls |->
            [tool |-> calls[i].tool, scenario |-> calls[i].scenario,
             ref |-> calls[i].ref]]

\* the statuses of the scenarios and of their steps in the list run_suite returns
Statuses(rs) ==
    [i \in DOMAIN rs |->
        [status |-> rs[i].status,
         steps |-> [k \in DOMAIN rs[i].step_results |-> rs[i].step_results[k].status]]]

\* run_suite has returned; a fresh agent is given the same suite with other
\* values of the four settings, and the collaborator will answer as before
CallRunSuiteAgain ==
    /\ entry = "run_suite"
    /\ pc = "returned"
    /\ first = NoFirst
    /\ first' = [done |-> TRUE, invocations |-> Invocations(log),
                 statuses |-> Statuses(results)]
    /\ \E c \in Configs :
          /\ scenarios' = WithConfig(scenarios, c)
          /\ flags' = [parallel |-> c.parallel, stop_on_failure |-> c.stop_on_failure]
    /\ cur' = 0
    /\ phase' = "none"
    /\ idx' = 0
    /\ step_results' = <<>>
    /\ test_results' = <<>>
    /\ results' = <<>>
    /\ session' = 0
    /\ opened' = 0
    /\ open' = {}
    /\ log' = <<>>
    /\ current_url' = <<>>
    /\ pc' = "suite_loop"
    /\ UNCHANGED <<entry, result, tape, assertions, io, given, page>>

FirstToolReturns == first = NoFirst /\ ToolReturnsFrom(Replies, "record")

FirstShotReturns == first = NoFirst /\ ShotReturnsFrom(Replies, "record")

AgainToolReturns == first # NoFirst /\ ToolReturnsFrom(Replies, "replay")

AgainShotReturns == first # NoFirst /\ ShotReturnsFrom(Replies, "replay")

NextPair ==
    \/ CallRunSuiteFirst
    \/ CallRunSuiteAgain
    \/ SuiteNext
    \/ SuiteReturn
    \/ OpenChannel
    \/ InitializeReturns
    \/ RunStepInvoke
    \/ RunStepLocal
    \/ FirstToolReturns
    \/ FirstShotReturns
    \/ AgainToolReturns
    \/ AgainShotReturns
    \/ PhaseDone
    \/ CloseSession

SpecPair == Init /\ [][NextPair]_vars

(* ------------------- the assertion library (assertions.py) ----------- *)
DigitChar(d) ==
    CASE d = 0 -> "0" [] d = 1 -> "1" [] d = 2 -> "2" [] d = 3 -> "3" [] d = 4 -> "4"
      [] d = 5 -> "5" [] d = 6 -> "6" [] d = 7 -> "7" [] d = 8 -> "8" [] d = 9 -> "9"

RECURSIVE Digits(_)
Digits(n) == IF n < 10 THEN <<DigitChar(n)>> ELSE Append(Digits(n \div 10), DigitChar(n % 10))

\* str(value), as a sequence of characters
PyStr(v) ==
    CASE v.type = "str" -> v.val
      [] v.type = "int" -> IF v.val < 0 THEN <<"-">> \o Digits(-v.val) ELSE Digits(v.val)
      [] v.type = "bool" -> IF v.val THEN <<"T", "r", "u", "e">> ELSE <<"F", "a", "l", "s", "e">>
      [] v.type = "float" -> <<"n", "a", "n">>
      [] v.type = "none" -> <<"N", "o", "n", "e">>

\* the length from which contains and not_contains cut the actual they record
ActualLimit == 100

\* the AssertionResult a method builds (expected and message, formatted texts,
\* are left out); a method that raises builds none
Made(type, passed, actual) ==
    [raises |-> FALSE, passed |-> passed, assertion_type |-> type, actual |-> actual]

TypeError == [raises |-> TRUE]

\* the actual of contains and not_contains: haystack[:100] when str(haystack)
\* is longer than 100, which only a str allows
CutActual(haystack) ==
    IF Len(PyStr(haystack)) > ActualLimit
    THEN StrVal(SubSeq(haystack.val, 1, ActualLimit))
    ELSE haystack

\* BetweenMade as it would be with strict comparisons
BetweenMadeExclusive(actual, min_val, max_val) ==
    Made("between", PyLe(min_val, actual) /\ PyLe(actual, max_val)
                    /\ PyNe(min_val, actual) /\ PyNe(actual, max_val), actual)

\* between: min_val <= actual <= max_val
BetweenMade(actual, min_val, max_val) ==
    Made("between", PyLe(min_val, actual) /\ PyLe(actual, max_val), actual)

\* what the assertion methods compute before _handle_result: c is a call, a
\* method name with its arguments
MadeBy(c) ==
    CASE c.op = "equals" -> Made("equals", PyEq(c.args[1], c.args[2]), c.args[1])
      [] c.op = "not_equals" -> Made("not_equals", PyNe(c.args[1], c.args[2]), c.args[1])
      [] c.op = "is_true" -> Made("is_true", Truthy(c.args[1]), c.args[1])
      [] c.op = "is_false" -> Made("is_false", ~Truthy(c.args[1]), c.args[1])
      [] c.op = "contains" ->
            IF c.args[2].type # "str"
               \/ (c.args[1].type # "str" /\ Len(PyStr(c.args[1])) > ActualLimit)
            THEN TypeError
            ELSE Made("contains", IsSubstring(c.args[2].val, PyStr(c.args[1])),
                      CutActual(c.args[1]))
      [] c.op = "not_contains" ->
            IF c.args[2].type # "str"
               \/ (c.args[1].type # "str" /\ Len(PyStr(c.args[1])) > ActualLimit)
            THEN TypeError
            ELSE Made("not_contains", ~IsSubstring(c.args[2].val, PyStr(c.args[1])),
                      CutActual(c.args[1]))
      [] c.op = "between" -> BetweenMade(c.args[1], c.args[2], c.args[3])

MethodCall(op, args) == [op |-> op, args |-> args]

\* HandleResult as it would be if failures were collected in either mode
HandleResultCollectsAlways(a, made) ==
    [assertions |-> IF ~made.passed THEN [a EXCEPT !.failures = Append(@, made)] ELSE a,
     ret |-> made.passed]

\* _handle_result on the Assertions object a: the object afterwards and the
\* boolean returned
HandleResult(a, made) ==
    [assertions |-> IF ~made.passed /\ a.soft_mode
                    THEN [a EXCEPT !.failures = Append(@, made)] ELSE a,
     ret |-> made.passed]

\* a method call on the Assertions object a: the object afterwards and what io
\* keeps of the call (a call that raises leaves the object as it was)
Asserted(a, c) ==
    LET made == MadeBy(c)
    IN  IF made.raises
        THEN [assertions |-> a,
              kept |-> [op |-> c.op, args |-> c.args, raises |-> TRUE]]
        ELSE [assertions |-> HandleResult(a, made).assertions,
              kept |-> [op |-> c.op, args |-> c.args, raises |-> FALSE,
                        ret |-> HandleResult(a, made).ret, made |-> made]]

\* the variables of the agent, which the library does not touch
AgentVars ==
    <<entry, scenarios, pc, cur, phase, idx, step_results, test_results, results,
      session, opened, open, log, current_url, result, tape, flags, first,
      given, page>>

(* ---------- an Assertions object in use: SpecAssertions --------------- *)
\* most calls made on one Assertions object
MaxAssertionCalls == 3

\* assertion calls that pass and that fail
AssertionCalls ==
    {MethodCall("equals", <<IntVal(1), BoolVal(TRUE)>>),
     MethodCall("equals", <<IntVal(1), IntVal(2)>>),
     MethodCall("contains", <<StrVal(<<"a", "b">>), StrVal(<<"b">>)>>),
     MethodCall("not_contains", <<StrVal(<<"a", "b">>), StrVal(<<"b">>)>>),
     MethodCall("between", <<IntVal(1), IntVal(1), IntVal(2)>>),
     MethodCall("between", <<IntVal(0), IntVal(1), IntVal(2)>>)}

\* one of the assertion methods is called
AssertCall ==
    /\ Len(io) < MaxAssertionCalls
    /\ \E c \in AssertionCalls :
          /\ assertions' = Asserted(assertions, c).assertions
          /\ io' = Append(io, Asserted(assertions, c).kept)
    /\ UNCHANGED AgentVars

\* soft_assert(enabled)
SoftAssert ==
    /\ Len(io) < MaxAssertionCalls
    /\ \E enabled \in BOOLEAN :
          /\ assertions' = [assertions EXCEPT !.soft_mode = enabled]
          /\ io' = Append(io, [op |-> "soft_assert", args |-> <<enabled>>,
                               raises |-> FALSE])
    /\ UNCHANGED AgentVars

\* clear_failures()
ClearFailures ==
    /\ Len(io) < MaxAssertionCalls
    /\ assertions' = [assertions EXCEPT !.failures = <<>>]
    /\ io' = Append(io, [op |-> "clear_failures", args |-> <<>>, raises |-> FALSE])
    /\ UNCHANGED AgentVars

NextAssertions ==
    \/ AssertCall
    \/ SoftAssert
    \/ ClearFailures

SpecAssertions == Init /\ [][NextAssertions]_vars

(* ------------- serialisation of steps and scenarios (scenarios.py) ---- *)
\* the values of ActionType
ActionTypes ==
    {"navigate", "click", "type", "wait", "scroll", "screenshot", "assert_text",
     "assert_element", "assert_url", "assert_title", "assert_value", "hover",
     "select", "clear", "press_key", "execute_js"}

\* the defaults of the TestStep dataclass
StepDefaults ==
    [target |-> "", value |-> NoneVal, timeout |-> NoneVal, critical |-> FALSE,
     screenshot_on_failure |-> TRUE, retry_count |-> 0, description |-> "",
     expected |-> NoneVal]

StepFields ==
    {"name", "action", "target", "value", "timeout", "critical",
     "screenshot_on_failure", "retry_count", "description", "expected"}

\* TestStep objects, every field at its default or at another value
TestSteps ==
    [name : {"s"}, action : ActionTypes, target : {"#a"},
     value : {NoneVal, StrVal(<<"a">>)}, timeout : {NoneVal, IntVal(2)},
     critical : BOOLEAN, screenshot_on_failure : BOOLEAN, retry_count : {0, 1},
     description : {""}, expected : {NoneVal, StrVal(<<"a">>)}]

\* TestStep.to_dict: seven of the ten fields
StepToDict(step) ==
    [name |-> step.name, action |-> step.action, target |-> step.target,
     value |-> step.value, timeout |-> step.timeout, critical |-> step.critical,
     description |-> step.description]

\* TestStep.from_dict, cls(**data): the keys of data, and the dataclass default
\* of every other field (name and action have none and are always keys here)
StepFromDict(data) ==
    [f \in StepFields |-> IF f \in DOMAIN data THEN data[f] ELSE StepDefaults[f]]

\* the default priority and the defaults of the other TestScenario fields
DefaultPriority == 5

\* a dict is modelled by the set of its items
EmptyDict == {}

PlainStep == [StepDefaults EXCEPT !.target = "#a"] @@ [name |-> "s", action |-> "click"]

\* TestScenario objects: no step or one, timeout and data at their defaults or not
TestScenarios ==
    [name : {"sc"}, description : {""},
     steps : {<<>>, <<PlainStep>>, <<[PlainStep EXCEPT !.retry_count = 1]>>},
     setup_steps : {<<>>, <<PlainStep>>},
     teardown_steps : {<<>>, <<[PlainStep EXCEPT !.screenshot_on_failure = FALSE]>>},
     tags : {<<>>, <<"smoke">>}, priority : {DefaultPriority, 1},
     timeout : {DefaultTimeout, 2}, data : {EmptyDict, {<<"user", "a">>}}]

StepsToDicts(steps) == [i \in DOMAIN steps |-> StepToDict(steps[i])]

StepsFromDicts(dicts) == [i \in DOMAIN dicts |-> StepFromDict(dicts[i])]

\* TestScenario.to_dict: seven of the nine fields
ScenarioToDict(scenario) ==
    [name |-> scenario.name, description |-> scenario.description,
     steps |-> StepsToDicts(scenario.steps),
     setup_steps |-> StepsToDicts(scenario.setup_steps),
     teardown_steps |-> StepsToDicts(scenario.teardown_steps),
     tags |-> scenario.tags, priority |-> scenario.priority]

\* TestScenario.from_dict: the seven keys it reads (all present in what to_dict
\* wrote); timeout and data, never passed to cls, take the dataclass defaults
ScenarioFromDict(data) ==
    [name |-> data.name, description |-> data.description,
     steps |-> StepsFromDicts(data.steps),
     setup_steps |-> StepsFromDicts(data.setup_steps),
     teardown_steps |-> StepsFromDicts(data.teardown_steps),
     tags |-> data.tags, priority |-> data.priority,
     timeout |-> DefaultTimeout, data |-> EmptyDict]

(* -------- single calls of the libraries: SpecLibrary ------------------ *)
\* what io keeps of a call that returned
Kept(op, args, ret) == [op |-> op, args |-> args, raises |-> FALSE, ret |-> ret]

\* TestStep.from_dict(step.to_dict())
CallStepRoundTrip ==
    /\ io = <<>>
    /\ \E step \in TestSteps :
          io' = <<Kept("TestStep.from_dict", <<step>>, StepFromDict(StepToDict(step)))>>
    /\ UNCHANGED <<AgentVars, assertions>>

\* TestScenario.from_dict(scenario.to_dict())
CallScenarioRoundTrip ==
    /\ io = <<>>
    /\ \E scenario \in TestScenarios :
          io' = <<Kept("TestScenario.from_dict", <<scenario>>,
                       ScenarioFromDict(ScenarioToDict(scenario)))>>
    /\ UNCHANGED <<AgentVars, assertions>>

\* the calls first(args) and then second(args) on the Assertions object
CallBoth(first_op, second_op, args) ==
    LET one == Asserted(assertions, MethodCall(first_op, args))
        two == Asserted(one.assertions, MethodCall(second_op, args))
    IN  /\ io' = <<one.kept, two.kept>>
        /\ assertions' = two.assertions

\* equals(x, y) and not_equals(x, y)
CallEqualsAndNotEquals ==
    /\ io = <<>>
    /\ \E x \in PyValues, y \in PyValues : CallBoth("equals", "not_equals", <<x, y>>)
    /\ UNCHANGED AgentVars

\* contains(h, n) and not_contains(h, n)
CallContainsAndNotContains ==
    /\ io = <<>>
    /\ \E h \in PyValues, n \in PyValues : CallBoth("contains", "not_contains", <<h, n>>)
    /\ UNCHANGED AgentVars

Numbers == {v \in PyValues : IsNumber(v)}

\* between(actual, min_val, max_val)
CallBetween ==
    /\ io = <<>>
    /\ \E actual \in Numbers, min_val \in Numbers, max_val \in Numbers :
          /\ io' = <<Asserted(assertions,
                              MethodCall("between", <<actual, min_val, max_val>>)).kept>>
          /\ assertions' = Asserted(assertions,
                              MethodCall("between", <<actual, min_val, max_val>>)).assertions
    /\ UNCHANGED AgentVars

NextLibrary ==
    \/ CallStepRoundTrip
    \/ CallScenarioRoundTrip
    \/ CallEqualsAndNotEquals
    \/ CallContainsAndNotContains
    \/ CallBetween

SpecLibrary == Init /\ [][NextLibrary]_vars

(* ------------- a chain started with expect(value): SpecChain ---------- *)
\* most chained calls after expect(value)
MaxChainCalls == 2

\* the chained calls: the method of Assertions each makes on the chain's value
ChainCalls ==
    {[op |-> "to_equal", method |-> "equals", rest |-> <<e>>] : e \in PyValues}
    \cup {[op |-> "to_contain", method |-> "contains", rest |-> <<e>>] :
             e \in {v \in PyValues : v.type = "str"}}
    \cup {[op |-> "to_be_true", method |-> "is_true", rest |-> <<>>],
          [op |-> "to_be_false", method |-> "is_false", rest |-> <<>>]}

\* expect(value): an ExpectChain on value with an Assertions object of its own
Expect ==
    /\ io = <<>>
    /\ \E value \in PyValues : io' = <<Kept("expect", <<value>>, "ExpectChain")>>
    /\ assertions' = NewAssertions
    /\ UNCHANGED AgentVars

\* one more call on the chain: the assertion is made on the chain's value, its
\* boolean is dropped and the chain itself is returned
ChainCall ==
    /\ io # <<>> /\ io[1].op = "expect"
    /\ Len(io) <= MaxChainCalls
    /\ \E c \in ChainCalls :
          LET done == Asserted(assertions, MethodCall(c.method, io[1].args \o c.rest))
          IN  /\ assertions' = done.assertions
              /\ io' = Append(io, [done.kept EXCEPT !.op = c.op, !.ret = "ExpectChain"])
    /\ UNCHANGED AgentVars

NextChain ==
    \/ Expect
    \/ ChainCall

SpecChain == Init /\ [][NextChain]_vars

(* ------------- the browser server (mcp_browser_server.py) ------------- *)
\* the page after p.goto(url) has returned
LoadedPage(url) == [exists |-> TRUE, url |-> url]

\* document.body.innerText of a page: a blank page has none
BodyText(pg) == IF pg = BlankPage THEN <<>> ELSE <<"a", "b">>

\* p.content() of a page
HtmlOf(pg) ==
    IF pg = BlankPage THEN <<"<html><head></head><body></body></html>">>
    ELSE <<"<", "t", "i", "t", "l", "e", ">", "A", "b", "<", "/", "t", "i", "t", "l", "e", ">">>

\* p.title() of a page
PageTitle(pg) == IF pg = BlankPage THEN <<>> ELSE <<"A", "b">>

\* the lengths browser_get_content and browser_get_html cut their text to
ContentLimit == 10000

HtmlLimit == 20000

\* text[:n]
Clip(text, n) == IF Len(text) > n THEN SubSeq(text, 1, n) ELSE text

\* what can go wrong in a handler whatever the call: nothing, the launch of the
\* browser or the opening of the page in get_page, the operation on the page
Faults == {"none", "launch", "operation"}

\* the handler returns the parts
Done(parts, pg) == [raises |-> FALSE, content |-> parts, page |-> pg]

\* the handler raises an Exception whose str() is message
Throws(message, pg) == [raises |-> TRUE, message |-> message, page |-> pg]

\* arguments[key] of a key the dict has not: KeyError, whose str() is the repr
\* of the key
KeyError(key, pg) == Throws(<<"'", key, "'">>, pg)

\* arguments.get(key, default)
Get(arguments, key, default) ==
    IF key \in DOMAIN arguments THEN arguments[key] ELSE default

\* the body of the try statement of call_tool: the branch of the tool name,
\* which gets the page (made when the process has none), reads its arguments
\* and operates on the page
Handler(name, arguments, pg, fault) ==
    LET p == IF pg = NoPage THEN BlankPage ELSE pg
        failed == Throws(<<"failed">>, p)
    IN  IF name = "browser_close"
        THEN IF pg # NoPage /\ fault = "operation" THEN Throws(<<"failed">>, pg)
             ELSE Done(<<TextPart(<<"Browser closed">>)>>, NoPage)
        ELSE IF name \notin {"browser_navigate", "browser_screenshot", "browser_click",
                             "browser_type", "browser_get_content", "browser_get_html",
                             "browser_scroll", "browser_wait"}
        THEN Done(<<TextPart(<<"Unknown tool: ", name>>)>>, pg)
        ELSE IF pg = NoPage /\ fault = "launch" THEN Throws(<<"failed">>, NoPage)
        ELSE CASE name = "browser_navigate" ->
                    IF "url" \notin DOMAIN arguments THEN KeyError("url", p)
                    ELSE IF fault = "operation" THEN failed
                    ELSE Done(<<TextPart(<<"Navigated to ">> \o PyStr(arguments.url)
                                          \o <<" - Title: ">>
                                          \o PageTitle(LoadedPage(arguments.url.val)))>>,
                              LoadedPage(arguments.url.val))
               [] name = "browser_screenshot" ->
                    IF fault = "operation" THEN failed
                    ELSE Done(<<ImagePart, TextPart(<<"Screenshot captured">>)>>, p)
               [] name = "browser_click" ->
                    IF "selector" \notin DOMAIN arguments THEN KeyError("selector", p)
                    ELSE IF fault = "operation" THEN failed
                    ELSE Done(<<TextPart(<<"Clicked on ">> \o PyStr(arguments.selector))>>, p)
               [] name = "browser_type" ->
                    IF "selector" \notin DOMAIN arguments THEN KeyError("selector", p)
                    ELSE IF "text" \notin DOMAIN arguments THEN KeyError("text", p)
                    ELSE IF fault = "operation" THEN failed
                    ELSE Done(<<TextPart(<<"Typed text into ">>
                                         \o PyStr(arguments.selector))>>, p)
               [] name = "browser_get_content" ->
                    IF fault = "operation" THEN failed
                    ELSE Done(<<TextPart(Clip(BodyText(p), ContentLimit))>>, p)
               [] name = "browser_get_html" ->
                    IF fault = "operation" THEN failed
                    ELSE Done(<<TextPart(Clip(HtmlOf(p), HtmlLimit))>>, p)
               [] name = "browser_scroll" ->
                    IF "direction" \notin DOMAIN arguments THEN KeyError("direction", p)
                    ELSE IF fault = "operation" THEN failed
                    ELSE Done(<<TextPart(<<"Scrolled ">> \o PyStr(arguments.direction)
                                  \o <<" by ">>
                                  \o PyStr(Get(arguments, "amount", IntVal(DefaultScroll)))
                                  \o <<"px">>)>>, p)
               [] name = "browser_wait" ->
                    LET selector == Get(arguments, "selector", NoneVal)
                        timeout == Get(arguments, "timeout", IntVal(DefaultWait))
                    IN  IF Truthy(selector)
                        THEN IF fault = "operation" THEN failed
                             ELSE Done(<<TextPart(<<"Element ">> \o PyStr(selector)
                                                  \o <<" found">>)>>, p)
                        ELSE IF ~IsNumber(timeout)
                             THEN Throws(<<"unsupported operand type(s) for /">>, p)
                             ELSE Done(<<TextPart(<<"Waited ">> \o PyStr(timeout)
                                                  \o <<"ms">>)>>, p)

\* ServerCallTool as it would be without the try statement
ServerCallToolUncaught(name, arguments, pg, fault) ==
    LET h == Handler(name, arguments, pg, fault)
    IN  IF h.raises THEN [raises |-> TRUE, content |-> <<>>, page |-> h.page]
        ELSE h

\* call_tool(name, arguments) of the server: what the handler returns, or for
\* an Exception one text part, f"Error: {str(e)}"
ServerCallTool(name, arguments, pg, fault) ==
    LET h == Handler(name, arguments, pg, fault)
    IN  IF h.raises
        THEN [raises |-> FALSE, content |-> <<TextPart(<<"Error:", " ">> \o h.message)>>,
              page |-> h.page]
        ELSE h

(* ------------- the server called by any client: SpecServer ------------ *)
\* the tool names a client sends: the nine of list_tools and another
ToolNames ==
    {"browser_navigate", "browser_screenshot", "browser_click", "browser_type",
     "browser_get_content", "browser_get_html", "browser_scroll", "browser_wait",
     "browser_close", "browser_hover"}

\* the arguments a client sends: those of the schemas, with and without the
\* required and the optional ones, and none at all
ToolArguments ==
    {[none |-> TRUE], [url |-> StrVal(NavigateStep.target)], [url |-> StrVal(OtherUrl)],
     [selector |-> StrVal(ClickStep.target), text |-> StrVal(<<"a">>)],
     [direction |-> StrVal(<<"d", "o", "w", "n">>), amount |-> IntVal(2)],
     [direction |-> StrVal(<<"u", "p">>)],
     [selector |-> NoneVal, timeout |-> IntVal(2)],
     [selector |-> StrVal(ClickStep.target), timeout |-> IntVal(2)],
     [selector |-> NoneVal, timeout |-> NoneVal], [timeout |-> IntVal(0)]}

\* a client starts the server: the process begins with the module's globals
SpawnServer ==
    /\ pc = "idle"
    /\ page' = PageAtSpawn
    /\ io' = <<>>
    /\ UNCHANGED <<entry, scenarios, pc, cur, phase, idx, step_results, test_results,
                   results, session, opened, open, log, current_url, result, tape,
                   flags, first, assertions, given>>

\* the server is sent one call and answers it; the call is kept with what the
\* server made of it
ServeCall ==
    /\ pc = "idle"
    /\ \E name \in ToolNames, arguments \in ToolArguments, fault \in Faults :
          LET served == ServerCallTool(name, arguments, page, fault)
          IN  /\ page' = served.page
              /\ io' = <<[op |-> "call_tool", name |-> name, arguments |-> arguments,
                          fault |-> fault, raised |-> Handler(name, arguments, page, fault).raises,
                          before |-> page, served |-> served]>>
    /\ UNCHANGED <<entry, scenarios, pc, cur, phase, idx, step_results, test_results,
                   results, session, opened, open, log, current_url, result, tape,
                   flags, first, assertions, given>>

NextServer ==
    \/ SpawnServer
    \/ ServeCall

SpecServer == Init /\ [][NextServer]_vars

(* ------- one-shot operations answered by the server: SpecBrowser ------ *)
\* the text the caller of assert_text_present looks for: one the page at the
\* address shows
AssertedText == <<"b">>

\* the arguments of the one invocation of a one-shot operation, the caller's
\* parameters being those above and the defaults of the signatures
OneShotArguments(op) ==
    CASE op = "navigate" -> [url |-> StrVal(NavigateStep.target)]
      [] op = "click" -> [selector |-> StrVal(ClickStep.target)]
      [] op = "type_text" -> [selector |-> StrVal(ClickStep.target),
                              text |-> StrVal(<<"a">>)]
      [] op = "wait" -> [selector |-> NoneVal, timeout |-> IntVal(DefaultWait)]
      [] op = "scroll" -> [direction |-> StrVal(<<"d", "o", "w", "n">>),
                           amount |-> IntVal(DefaultScroll)]
      [] OTHER -> [none |-> TRUE]

\* what get_content returns: the first text of a successful response with
\* content, else ""
GetContent(response) ==
    IF response.success /\ response.content # <<>> THEN FirstText(response) ELSE <<>>

\* what the operation returns to its caller
OneShotValue(op, response) ==
    CASE op = "get_content" -> [text |-> GetContent(response)]
      [] op = "assert_text_present" ->
            [present |-> IsSubstring(Lower(AssertedText), Lower(GetContent(response)))]
      [] OTHER -> [success |-> response.success]

\* the server of the session answers the invocation of the one-shot operation
ServedOneShotReturns ==
    /\ pc = "await_oneshot"
    /\ \E fault \in Faults :
          LET served == ServerCallTool(ToolOf(entry), OneShotArguments(entry), page, fault)
              reply == Returns(FALSE, served.content)
          IN  /\ OneShotAnswered(reply)
              /\ page' = served.page
              /\ io' = Append(io, [op |-> "call_tool", name |-> ToolOf(entry),
                                   session |-> session, before |-> page,
                                   served |-> served])
              /\ result' = [status |-> "returned",
                            value |-> OneShotValue(entry, CallToolInSession(reply))]

NextBrowser ==
    \/ CallOneShot
    \/ OneShotOver
    \/ OpenChannel
    \/ InitializeReturns
    \/ ServedOneShotReturns

SpecBrowser == Init /\ [][NextBrowser]_vars

(* ------------- run_suite to its end: SpecLive ------------------------- *)
\* most scenarios of a suite that is followed to its end
MaxLiveScenarios == 2

\* a scenario whose one step fails and asks for the failure screenshot, and
\* one with a critical setup step, a navigation and a teardown step
LiveScenarios ==
    {[setup_steps |-> <<>>,
      steps |-> <<StepOf("assert_url", AssertUrlStep.target, TRUE)>>,
      teardown_steps |-> <<>>, timeout |-> DefaultTimeout],
     [setup_steps |-> <<[StepOf("click", ClickStep.target, FALSE)
                            EXCEPT !.critical = TRUE]>>,
      steps |-> <<StepOf("navigate", NavigateStep.target, FALSE)>>,
      teardown_steps |-> <<StepOf("click", ClickStep.target, TRUE)>>,
      timeout |-> DefaultTimeout]}

\* the caller calls run_suite with a suite of such scenarios
CallRunLiveSuite ==
    /\ pc = "idle"
    /\ \E suite \in SeqsUpTo(LiveScenarios, MaxLiveScenarios) : scenarios' = suite
    /\ entry' = "run_suite"
    /\ results' = <<>>
    /\ pc' = "suite_loop"
    /\ UNCHANGED <<cur, phase, idx, step_results, test_results, session, opened,
                   open, log, current_url, result, tape, flags, first,
                   assertions, io, given, page>>

\* the awaited call (stdio_client, initialize, call_tool) neither returns nor
\* raises: no statement of the agent bounds the wait (no asyncio.wait_for, no
\* timeout argument), so the coroutine stays suspended
Hang ==
    /\ pc \in {"opening", "initializing", "await_tool", "await_shot"}
    /\ pc' = "blocked"
    /\ UNCHANGED <<entry, scenarios, cur, phase, idx, step_results, test_results,
                   results, session, opened, open, log, current_url, result, tape,
                   flags, first, assertions, io, given, page>>

NextLive ==
    \/ CallRunLiveSuite
    \/ SuiteNext
    \/ SuiteReturn
    \/ OpenChannel
    \/ OpenChannelFails
    \/ InitializeReturns
    \/ InitializeFails
    \/ RunStepInvoke
    \/ RunStepLocal
    \/ ToolReturns
    \/ ShotReturns
    \/ PhaseDone
    \/ CloseSession
    \/ Hang

\* the event loop resumes the coroutine whenever it can go on, and every
\* awaited call is answered: it returns, raises, or is one that never will
SpecLive == Init /\ [][NextLive]_vars /\ WF_vars(NextLive)

(* ------------------------------ properties ---------------------------- *)
NonPassingCritical(sr) == sr.status # "passed" /\ sr.step.critical

HasStatus(srs, st) == \E i \in DOMAIN srs : srs[i].status = st

\* the scenario a TestResult refers to
ScenarioOf(r) == scenarios[r.scenario]

\* the result lists that exist: those of the TestResults and the one being built
ResultLists ==
    {[scenario |-> test_results[i].scenario, srs |-> test_results[i].step_results,
      final |-> TRUE] : i \in DOMAIN test_results}
    \cup (IF cur >= 1 /\ pc \in {"loop", "await_tool", "await_shot", "closing"}
          THEN {[scenario |-> cur, srs |-> step_results, final |-> FALSE]}
          ELSE {})

\* C1: the status of every TestResult is 'error' if any of its step results (of
\* any phase) is 'error', else 'failed' if any is 'failed', else 'passed'.
C1_StatusAggregation ==
    \A i \in DOMAIN test_results :
        LET r == test_results[i]
        IN  r.status = (CASE HasStatus(r.step_results, "error") -> "error"
                          [] ~HasStatus(r.step_results, "error")
                             /\ HasStatus(r.step_results, "failed") -> "failed"
                          [] OTHER -> "passed")

\* a TestResult with results in all three phases, a failed one and then an error
C1_Witness ==
    \E i \in DOMAIN test_results :
        LET srs == test_results[i].step_results
        IN  /\ test_results[i].status = "error"
            /\ \E a, b, c \in DOMAIN srs :
                 /\ srs[a].ref.phase = "setup" /\ srs[a].status = "passed"
                 /\ srs[b].ref.phase = "steps" /\ srs[b].status = "failed"
                 /\ srs[c].ref.phase = "teardown" /\ srs[c].status = "error"

\* C2: once a critical main step has ended other than 'passed', no later main
\* step is executed: whatever follows it in step_results is the teardown steps,
\* in order, and in a finished TestResult all of them follow it.
C2_CriticalMainStops ==
    \A l \in ResultLists :
        \A k \in DOMAIN l.srs :
            (l.srs[k].ref.phase = "steps" /\ NonPassingCritical(l.srs[k])) =>
                LET td == scenarios[l.scenario].teardown_steps
                IN  /\ Len(l.srs) <= k + Len(td)
                    /\ \A i \in (k + 1)..Len(l.srs) :
                         /\ l.srs[i].ref = [phase |-> "teardown", index |-> i - k]
                         /\ l.srs[i].step = td[i - k]
                    /\ l.final => Len(l.srs) = k + Len(td)

\* a finished scenario whose critical main step failed before another main step,
\* and whose teardown step ran
C2_Witness ==
    \E i \in DOMAIN test_results :
        LET srs == test_results[i].step_results
            sc == ScenarioOf(test_results[i])
        IN  \E k \in DOMAIN srs :
              /\ srs[k].ref.phase = "steps" /\ NonPassingCritical(srs[k])
              /\ srs[k].ref.index < Len(sc.steps)
              /\ Len(sc.teardown_steps) >= 1
              /\ srs[Len(srs)].ref.phase = "teardown"

C4_SetupFailureIsError ==
    \A i \in DOMAIN test_results :
        (\E k \in DOMAIN test_results[i].step_results :
            /\ test_results[i].step_results[k].ref.phase = "setup"
            /\ NonPassingCritical(test_results[i].step_results[k]))
        => test_results[i].status = "error"

\* the results of the teardown phase within a result list, in list order
RECURSIVE TeardownPart(_)
TeardownPart(srs) ==
    IF srs = <<>> THEN <<>>
    ELSE IF Head(srs).ref.phase = "teardown"
         THEN <<Head(srs)>> \o TeardownPart(Tail(srs))
         ELSE TeardownPart(Tail(srs))

\* the first n teardown steps of sc, each executed once, in declaration order
IsTeardownRun(part, sc, n) ==
    /\ Len(part) = n
    /\ n <= Len(sc.teardown_steps)
    /\ \A t \in 1..n :
         /\ part[t].ref.index = t
         /\ part[t].step = sc.teardown_steps[t]

\* C5: once run_scenario has reached the main phase, it leaves its with-block
\* only after every teardown step has been executed exactly once, in declaration
\* order, whatever the statuses of main and earlier teardown steps; until then
\* the teardown steps executed so far are a prefix of them.
C5_TeardownAlwaysRuns ==
    /\ (cur >= 1 /\ pc \in {"loop", "await_tool", "await_shot", "closing"}) =>
         LET part == TeardownPart(step_results)
         IN  /\ IsTeardownRun(part, scenarios[cur], Len(part))
             /\ (pc = "closing" /\ phase # "setup") =>
                   Len(part) = Len(scenarios[cur].teardown_steps)
    /\ \A i \in DOMAIN test_results :
         LET r == test_results[i]
             part == TeardownPart(r.step_results)
         IN  /\ IsTeardownRun(part, ScenarioOf(r), Len(part))
             /\ (\E k \in DOMAIN r.step_results : r.step_results[k].ref.phase # "setup")
                   => Len(part) = Len(ScenarioOf(r).teardown_steps)

\* a finished scenario where a critical teardown step did not pass and the
\* teardown step declared after it was executed all the same
C5_Witness ==
    \E i \in DOMAIN test_results :
        LET part == TeardownPart(test_results[i].step_results)
        IN  /\ Len(part) >= 2
            /\ NonPassingCritical(part[1])
            /\ part[2].ref.index = 2

\* C6: when run_suite ends, by returning or by an exception of a scenario whose
\* session could not be established, it has one TestResult per scenario of the
\* suite, in the suite's order.
C6_SuiteOneResultPerScenario ==
    (entry = "run_suite" /\ pc \in {"returned", "raised"}) =>
        /\ Len(results) = Len(scenarios)
        /\ \A i \in DOMAIN results : results[i].scenario = i

\* the events of the log that belong to the run of scenario c
EventsOf(c, ev) == {i \in DOMAIN log : log[i].scenario = c /\ log[i].ev = ev}

\* C7: when the channel of a scenario cannot be opened or initialized, the
\* scenario still gets a TestResult, with status 'error' and no step results
\* (the failure is caught, it is not the way run_scenario ends).
C7_SessionFailureIsCaught ==
    (entry \in {"run_scenario", "run_suite"} /\ pc = "raised") =>
        \E i \in DOMAIN test_results :
            /\ test_results[i].scenario = cur
            /\ test_results[i].status = "error"
            /\ test_results[i].step_results = <<>>

\* C8: in the run of one scenario at most one session is opened, exactly one
\* once its TestResult exists, and every invocation of the run (the failure
\* screenshots included) is made on that session while it is open.
C8_OneSessionPerScenario ==
    \A c \in DOMAIN scenarios :
        /\ Cardinality(EventsOf(c, "open")) <= 1
        /\ (\E i \in DOMAIN test_results : test_results[i].scenario = c)
              => Cardinality(EventsOf(c, "open")) = 1
        /\ \A i \in EventsOf(c, "call") :
             /\ \E j \in EventsOf(c, "open") : j < i /\ log[j].session = log[i].session
             /\ ~\E j \in DOMAIN log :
                    j < i /\ log[j].ev = "close" /\ log[j].session = log[i].session

\* a finished scenario with invocations of at least two steps and a failure
\* screenshot
C8_Witness ==
    \E i \in DOMAIN test_results :
        LET c == test_results[i].scenario
        IN  /\ Len(test_results[i].step_results) >= 2
            /\ Cardinality(EventsOf(c, "call")) >= 3
            /\ \E j \in EventsOf(c, "call") : log[j].tool = "browser_screenshot"

\* C9: whenever run_scenario or a one-shot operation is not inside its
\* with-block (it has returned, raised, been cancelled, or not been entered
\* yet), no channel is open.
C9_SessionsTornDown ==
    /\ pc \in {"idle", "suite_loop", "returned", "raised", "cancelled"} => open = {}
    /\ Cardinality(open) <= 1

\* a run cancelled while suspended in an invocation on an open session
C9_Witness ==
    /\ pc = "cancelled"
    /\ Len(log) >= 2
    /\ log[Len(log) - 1].ev = "call"
    /\ log[Len(log)].ev = "close"
    /\ log[Len(log)].session = log[Len(log) - 1].session

\* C10: a scenario cancelled while one of its steps is suspended in an
\* invocation has a TestResult in test_results.
C10_CancelledScenarioRecorded ==
    (/\ pc = "cancelled"
     /\ entry \in {"run_scenario", "run_suite"}
     /\ Len(log) >= 2
     /\ log[Len(log) - 1].ev = "call") =>
        \E i \in DOMAIN test_results : test_results[i].scenario = cur

(* ------------------ properties of step execution (SpecStep) ----------- *)
\* the answers kept for the step at ref
AnswersOf(ref) == {i \in DOMAIN tape : tape[i].ref = ref}

\* an exception was raised while the step at ref was executed: by
\* session.call_tool, for the step's own invocation or for the failure
\* screenshot, or by the write of the image file
RaisedIn(ref) ==
    \E i \in AnswersOf(ref) : tape[i].reply.raises \/ tape[i].saved = "no"

\* the answers to the step's own invocation that returned
ReturnedTo(ref) ==
    {i \in AnswersOf(ref) : tape[i].kind = "primary" /\ ~tape[i].reply.raises}

\* C11: run_step_in_session never lets an exception reach the scenario runner;
\* the StepResult it returns has status 'error' exactly when an exception was
\* raised while the step was executed, and otherwise 'passed' or 'failed' (for
\* navigate and click: 'passed' exactly when the response of the invocation is
\* a success); end_time is set in every case.
C11_StepStatusClassification ==
    /\ pc # "raised"
    /\ \A k \in DOMAIN step_results :
          LET sr == step_results[k]
          IN  /\ sr.end_time = "set"
              /\ sr.status = "error" <=> RaisedIn(sr.ref)
              /\ ~RaisedIn(sr.ref) =>
                    /\ sr.status \in {"passed", "failed"}
                    /\ sr.step.action \in {"navigate", "click"} =>
                          \A i \in ReturnedTo(sr.ref) :
                              sr.status = "passed" <=> tape[i].response.success

\* a step was classified 'error' after session.call_tool raised, and the
\* scenario runner has gone on
C11_Witness ==
    /\ pc = "returned"
    /\ \E k \in DOMAIN step_results :
          /\ step_results[k].status = "error"
          /\ step_results[k].end_time = "set"
          /\ \E i \in AnswersOf(step_results[k].ref) : tape[i].reply.raises

\* C12: when the outcome of a step is 'failed' and screenshot_on_failure is set
\* (so the failure screenshot was asked for), the status of the step is 'failed'
\* whatever became of the screenshot.
C12_FailureScreenshotTolerated ==
    \A k \in DOMAIN step_results :
        (\E i \in AnswersOf(step_results[k].ref) : tape[i].kind = "shot")
            => step_results[k].status = "failed"

StepAt(ref) == PhaseSteps(scenarios[1], ref.phase)[ref.index]

\* the target of the last navigate step among the first n answers whose own
\* invocation returned a success (the empty string when there is none)
RECURSIVE LastNavigated(_)
LastNavigated(n) ==
    IF n = 0 THEN <<>>
    ELSE IF /\ tape[n].kind = "primary"
            /\ StepAt(tape[n].ref).action = "navigate"
            /\ ~tape[n].reply.raises
            /\ tape[n].response.success
         THEN StepAt(tape[n].ref).target
         ELSE LastNavigated(n - 1)

\* C14: current_url is the target of the last navigate step whose invocation
\* succeeded: a navigate step that fails or raises, a failure screenshot and a
\* step of any other kind leave it as it was.
C14_UrlFollowsNavigate == current_url = LastNavigated(Len(tape))

\* a navigate step succeeded, a later navigate step to another address did not,
\* and current_url is still the first address
C14_Witness ==
    /\ Len(step_results) = 2
    /\ step_results[1].status = "passed"
    /\ step_results[2].step.action = "navigate"
    /\ step_results[2].step.target # step_results[1].step.target
    /\ step_results[2].status # "passed"
    /\ current_url = step_results[1].step.target

\* current_url when the step at ref began (main steps, in order)
UrlBefore(ref) ==
    LastNavigated(Cardinality({i \in DOMAIN tape : tape[i].ref.index < ref.index}))

\* the invocations made while the step at ref was executed
CallsOf(ref) == {i \in DOMAIN log : log[i].ev = "call" /\ log[i].ref = ref}

\* an assert_url step passes exactly when its target, lowered, is a substring
\* of the lowered current_url
UrlDecides(sr) ==
    sr.status = "passed" <=>
        IsSubstring(Lower(sr.step.target), Lower(UrlBefore(sr.ref)))

\* C15 as stated: an assert_url step makes no invocation at all, and its outcome
\* is decided by the case-insensitive substring test on current_url alone.
C15_AssertUrlInvokesNothing ==
    /\ \A i \in DOMAIN log :
          (log[i].ev = "call" /\ log[i].ref # NoRef)
              => StepAt(log[i].ref).action # "assert_url"
    /\ \A k \in DOMAIN step_results :
          step_results[k].step.action = "assert_url" => UrlDecides(step_results[k])

\* C15 amended: the outcome of an assert_url step is decided by the
\* case-insensitive substring test on current_url alone and without an
\* invocation; the step makes no invocation when it passes or when
\* screenshot_on_failure is false, and exactly one, of browser_screenshot, when
\* it fails and screenshot_on_failure is true.
C15_AssertUrlInvocations ==
    \A k \in DOMAIN step_results :
        LET sr == step_results[k]
        IN  sr.step.action = "assert_url" =>
              /\ UrlDecides(sr)
              /\ IF sr.status = "passed" \/ ~sr.step.screenshot_on_failure
                 THEN CallsOf(sr.ref) = {}
                 ELSE /\ Cardinality(CallsOf(sr.ref)) = 1
                      /\ \A i \in CallsOf(sr.ref) : log[i].tool = "browser_screenshot"

\* an assert_url step has passed on an address that differs from its target in
\* case, and no invocation was made for it
C15_Witness ==
    \E k \in DOMAIN step_results :
        LET sr == step_results[k]
        IN  /\ sr.step.action = "assert_url"
            /\ sr.status = "passed"
            /\ ~IsSubstring(sr.step.target, current_url)
            /\ CallsOf(sr.ref) = {}

\* C16: an assert_text step passes exactly when its target, lowered, is a
\* substring of the lowered text browser_get_content returned, whatever that
\* text is.
C16_AssertTextBySubstring ==
    \A k \in DOMAIN step_results :
        LET sr == step_results[k]
        IN  sr.step.action = "assert_text" =>
              \A i \in ReturnedTo(sr.ref) :
                  LET r == tape[i].reply
                  IN  (~r.isError /\ r.content # <<>> /\ r.content[1].type = "text")
                        => (sr.status = "passed" <=>
                              IsSubstring(Lower(sr.step.target), Lower(r.content[1].text)))

\* the text and image parts of a result, in the order received
TextAndImageParts(parts) == SelectSeq(parts, LAMBDA c : c.type \in {"text", "image"})

\* C17: the response of _call_tool_in_session has success = false if the
\* transport reports failure (isError) or a text part contains "Error:", and
\* success = true otherwise; its content is the text and image parts of the
\* result in the order received.
C17_ResponseClassification ==
    \A i \in DOMAIN tape :
        LET r == tape[i].reply
        IN  ~r.raises =>
              /\ tape[i].response.success =
                    ~(r.isError \/ \E j \in DOMAIN r.content :
                                     /\ r.content[j].type = "text"
                                     /\ IsSubstring(ErrorMarker, r.content[j].text))
              /\ tape[i].response.content = TextAndImageParts(r.content)

(* ----------------- properties of ordering (SpecScenario) ------------- *)
PhaseRank(ph) == CASE ph = "setup" -> 1 [] ph = "steps" -> 2 [] ph = "teardown" -> 3

\* srs holds, in order, the first steps of sc.setup_steps, then the first steps
\* of sc.steps, then the first steps of sc.teardown_steps: every StepResult is
\* the result of the step declared at its place, a phase begins with its first
\* step, a step follows the one declared before it, and phases never go back
InDeclarationOrder(srs, sc) ==
    \A k \in DOMAIN srs :
        LET ref == srs[k].ref
        IN  /\ ref.index \in DOMAIN PhaseSteps(sc, ref.phase)
            /\ srs[k].step = PhaseSteps(sc, ref.phase)[ref.index]
            /\ IF k > 1 /\ srs[k - 1].ref.phase = ref.phase
               THEN ref.index = srs[k - 1].ref.index + 1
               ELSE /\ ref.index = 1
                    /\ k > 1 => PhaseRank(srs[k - 1].ref.phase) < PhaseRank(ref.phase)

\* C18: the step_results of every TestResult, and of the scenario being run,
\* are in declaration order (a prefix of setup_steps, then a prefix of steps,
\* then teardown_steps from its first step on), and every invocation made for
\* the scenario being run belongs to a step that has its result or to the one
\* step now being executed.
C18_StepsInDeclarationOrder ==
    /\ \A i \in DOMAIN test_results :
          InDeclarationOrder(test_results[i].step_results, ScenarioOf(test_results[i]))
    /\ cur \in DOMAIN scenarios =>
          /\ pc \in {"loop", "await_tool", "await_shot", "closing"}
                => InDeclarationOrder(step_results, scenarios[cur])
          /\ \A i \in DOMAIN log :
                (log[i].ev = "call" /\ log[i].scenario = cur /\ log[i].ref # NoRef
                    /\ pc \in {"loop", "await_tool", "await_shot", "closing"})
                  => \/ \E k \in DOMAIN step_results : step_results[k].ref = log[i].ref
                     \/ /\ pc \in {"await_tool", "await_shot"}
                        /\ log[i].ref = [phase |-> phase, index |-> idx]

\* a TestResult holds results of a setup step, a main step and a teardown step
C18_Witness ==
    \E i \in DOMAIN test_results :
        LET srs == test_results[i].step_results
        IN  /\ Len(srs) = 3
            /\ srs[1].ref.phase = "setup"
            /\ srs[2].ref.phase = "steps"
            /\ srs[3].ref.phase = "teardown"

SessionEvents(sid) == SelectSeq(log, LAMBDA e : e.session = sid)

\* C21: every one-shot operation opens a session of its own (no two opens are
\* of the same session), invokes only on it and at most once, and when it
\* returns it has opened that session, made exactly one invocation on it, of
\* its own tool, and closed it, in this order, and no session is open.
C21_OneShotOwnSession ==
    /\ \A i, j \in DOMAIN log :
          (i < j /\ log[i].ev = "open" /\ log[j].ev = "open")
              => log[i].session # log[j].session
    /\ \A sid \in 1..opened :
          LET evs == SessionEvents(sid)
          IN  /\ Len(evs) <= 3
              /\ \A k \in DOMAIN evs :
                    evs[k].ev = (CASE k = 1 -> "open" [] k = 2 -> "call" [] k = 3 -> "close")
                    \/ (k = 2 /\ Len(evs) = 2 /\ evs[k].ev = "close")
    /\ (entry \in OneShotOps /\ pc = "returned") =>
          LET evs == SessionEvents(opened)
          IN  /\ Len(evs) = 3
              /\ evs[2].ev = "call"
              /\ evs[2].tool = ToolOf(entry)
              /\ Len(log) >= 3
              /\ SubSeq(log, Len(log) - 2, Len(log)) = evs
              /\ open = {}

\* two one-shot operations have returned, each having used a session
C21_Witness ==
    /\ entry \in OneShotOps
    /\ pc = "returned"
    /\ opened = 2
    /\ Len(log) = 6

(* ------------ properties of the Assertions object (SpecAssertions) ---- *)
IsAssertion(e) == e.op \notin {"soft_assert", "clear_failures", "expect"}

\* soft mode and the failures due after the first n calls of io: soft_assert
\* sets the mode, clear_failures empties the list, and an assertion that fails
\* while the mode is on adds the result it made
RECURSIVE Due(_)
Due(n) ==
    IF n = 0 THEN [soft |-> FALSE, list |-> <<>>]
    ELSE LET before == Due(n - 1)
             e == io[n]
         IN  CASE e.op = "soft_assert" -> [before EXCEPT !.soft = e.args[1]]
               [] e.op = "clear_failures" -> [before EXCEPT !.list = <<>>]
               [] OTHER ->
                    IF ~e.raises /\ ~e.made.passed /\ before.soft
                    THEN [before EXCEPT !.list = Append(@, e.made)]
                    ELSE before

\* C23: after any sequence of assertion calls, soft_assert and clear_failures
\* on one Assertions object, failures holds exactly the results of the
\* assertions that failed while soft mode was on since the last
\* clear_failures, in call order; and every assertion has returned its boolean
\* outcome, whatever the outcome and the mode.
C23_SoftFailuresCollected ==
    /\ assertions.failures = Due(Len(io)).list
    /\ \A k \in DOMAIN io :
          IsAssertion(io[k]) =>
              /\ ~io[k].raises
              /\ io[k].ret \in BOOLEAN
              /\ io[k].ret = io[k].made.passed

\* an assertion failed in normal mode and was not collected, soft mode was
\* switched on, and a second failing assertion was collected
C23_Witness ==
    /\ Len(io) = 3
    /\ IsAssertion(io[1]) /\ ~io[1].ret
    /\ io[2].op = "soft_assert" /\ io[2].args[1]
    /\ IsAssertion(io[3]) /\ ~io[3].ret
    /\ assertions.failures = <<io[3].made>>

(* ------------------ properties of single calls (SpecLibrary) ---------- *)
\* C22: TestStep.from_dict(step.to_dict()) is a step equal to the original in
\* every field, for every action kind, and
\* TestScenario.from_dict(scenario.to_dict()) is a scenario equal to the
\* original, timeout and data included.
C22_RoundTrip ==
    \A k \in DOMAIN io :
        io[k].op \in {"TestStep.from_dict", "TestScenario.from_dict"} =>
            io[k].ret = io[k].args[1]

\* the two calls of io are first_op and second_op on the same arguments
BothCalled(first_op, second_op) ==
    /\ Len(io) = 2
    /\ io[1].op = first_op /\ io[2].op = second_op
    /\ io[1].args = io[2].args

\* the second call answers the opposite of the first, or both raise
Negated == 
    /\ io[1].raises = io[2].raises
    /\ ~io[1].raises => (io[1].ret \in BOOLEAN /\ io[2].ret \in BOOLEAN
                         /\ io[1].ret = ~io[2].ret)

\* C24: for all x, y, equals(x, y) is the negation of not_equals(x, y), and for
\* all h, n, contains(h, n) is the negation of not_contains(h, n) (both raise
\* on arguments that one of them raises on).
C24_NegatedCounterparts ==
    /\ BothCalled("equals", "not_equals") => Negated
    /\ BothCalled("contains", "not_contains") => Negated

\* nan was compared with itself: equals answered False and not_equals True
C24_Witness ==
    /\ BothCalled("equals", "not_equals")
    /\ io[1].args = <<NaN, NaN>>
    /\ ~io[1].ret /\ io[2].ret

\* C25: between(actual, lo, hi) returns true if and only if lo <= actual and
\* actual <= hi, and so returns true at actual = lo and at actual = hi of a
\* range lo <= hi.
C25_BetweenInclusive ==
    (Len(io) = 1 /\ io[1].op = "between") =>
        LET actual == io[1].args[1]
            lo == io[1].args[2]
            hi == io[1].args[3]
        IN  /\ ~io[1].raises
            /\ io[1].ret = (/\ \A v \in {actual, lo, hi} : ~IsNaN(v)
                            /\ Num(lo) <= Num(actual)
                            /\ Num(actual) <= Num(hi))
            /\ (PyLe(lo, hi) /\ (actual = lo \/ actual = hi)) => io[1].ret

\* between returned True at the upper boundary of a range with lo < hi
C25_Witness ==
    /\ Len(io) = 1 /\ io[1].op = "between"
    /\ io[1].args = <<IntVal(2), IntVal(1), IntVal(2)>>
    /\ io[1].ret

(* ------------------ properties of a chain (SpecChain) ----------------- *)
\* C26: in a chain started with expect(value), every chained assertion is
\* evaluated whatever the earlier ones gave, and the result of every failing
\* call is afterwards among the failures of the chain's Assertions object.
C26_ChainRecordsFailures ==
    (io # <<>> /\ io[1].op = "expect") =>
        \A k \in 2..Len(io) :
            /\ ~io[k].raises
            /\ ~io[k].made.passed =>
                  \E i \in DOMAIN assertions.failures : assertions.failures[i] = io[k].made

(* --------------- properties of scenario results (SpecScenario) -------- *)
\* TestResult.total_steps, passed_steps and failed_steps
TotalSteps(r) == Len(r.step_results)

PassedSteps(r) ==
    Len(SelectSeq(r.step_results, LAMBDA sr : sr.status = "passed"))

FailedSteps(r) ==
    Len(SelectSeq(r.step_results, LAMBDA sr : sr.status = "failed"))

\* C27: a TestResult all of whose step results are 'passed' has status
\* 'passed', total_steps equal to the number of setup, main and teardown steps
\* of its scenario, passed_steps equal to total_steps and failed_steps 0.
C27_AllPassedCounts ==
    \A i \in DOMAIN test_results :
        LET r == test_results[i]
        IN  (\A k \in DOMAIN r.step_results : r.step_results[k].status = "passed") =>
                /\ r.status = "passed"
                /\ TotalSteps(r) = ScenarioSize(ScenarioOf(r))
                /\ PassedSteps(r) = TotalSteps(r)
                /\ FailedSteps(r) = 0

\* a scenario with a critical step in each of the setup and main phases and a
\* teardown step has passed in all three
C27_Witness ==
    /\ entry = "run_scenario" /\ pc = "returned"
    /\ Len(test_results) = 1
    /\ test_results[1].status = "passed"
    /\ PassedSteps(test_results[1]) = 3
    /\ scenarios[1].setup_steps = <<NavigateStep>>
    /\ scenarios[1].steps = <<NavigateStep>>
    /\ Len(scenarios[1].teardown_steps) = 1

\* the StepResults of srs hold the steps of sc they were made for
HoldsTheSteps(srs, sc) ==
    \A k \in DOMAIN srs :
        /\ srs[k].ref.index \in DOMAIN PhaseSteps(sc, srs[k].ref.phase)
        /\ srs[k].step = PhaseSteps(sc, srs[k].ref.phase)[srs[k].ref.index]

\* C28: from the call of run_scenario to its end no step changes the scenario
\* (its three step lists and every field of every step stay as they were
\* given), and every StepResult made holds the very step that was executed.
C28_ScenarioNotModified ==
    [][/\ pc # "idle" => scenarios' = scenarios
       /\ cur' \in DOMAIN scenarios' => HoldsTheSteps(step_results', scenarios'[cur'])
       /\ \A i \in DOMAIN test_results' :
             HoldsTheSteps(test_results'[i].step_results,
                           scenarios'[test_results'[i].scenario])]_vars

\* a run of a three-step scenario with a critical step has returned its result
C28_Witness ==
    /\ entry = "run_scenario" /\ pc = "returned"
    /\ Len(test_results) = 1
    /\ Len(test_results[1].step_results) = 3
    /\ \E k \in 1..3 : test_results[1].step_results[k].step.critical

NoCriticalStep(sc) ==
    \A ph \in {"setup", "steps", "teardown"} :
        \A i \in DOMAIN PhaseSteps(sc, ph) : ~PhaseSteps(sc, ph)[i].critical

\* C29: a non-passing step that is not critical never stops its phase: the
\* TestResult of a scenario with no critical step has one step result for
\* every setup, main and teardown step, each step executed exactly once,
\* whatever the statuses.
C29_NonCriticalGoesOn ==
    \A i \in DOMAIN test_results :
        LET r == test_results[i]
            sc == ScenarioOf(r)
        IN  NoCriticalStep(sc) =>
                /\ Len(r.step_results) = ScenarioSize(sc)
                /\ \A ph \in {"setup", "steps", "teardown"} :
                      \A j \in DOMAIN PhaseSteps(sc, ph) :
                          Cardinality({k \in DOMAIN r.step_results :
                                          r.step_results[k].ref =
                                              [phase |-> ph, index |-> j]}) = 1

\* a scenario without critical steps whose setup step failed, whose main step
\* ended in error, and whose teardown step was executed all the same
C29_Witness ==
    \E i \in DOMAIN test_results :
        LET r == test_results[i]
        IN  /\ NoCriticalStep(ScenarioOf(r))
            /\ Len(r.step_results) = 3
            /\ r.step_results[1].ref.phase = "setup"
            /\ r.step_results[1].status = "failed"
            /\ r.step_results[2].ref.phase = "steps"
            /\ r.step_results[2].status = "error"
            /\ r.step_results[3].ref.phase = "teardown"

(* --------------- properties of the page assertions (SpecPage) --------- *)
\* the response gives the assertion nothing to look at: it is not a success,
\* or has no content, or (for assert_title) its HTML has no title element
NothingToAssertOn(step, response) ==
    \/ ~response.success
    \/ response.content = <<>>
    \/ step.action = "assert_title" /\ TitleMatches(FirstText(response)) = {}

\* C30: a StepResult of an assert_text, assert_element or assert_title step
\* whose get_content or get_html response was not a success or had no content
\* parts, or (assert_title) whose HTML had no title element, has status
\* 'failed', not 'error', and a non-empty message.
C30_NoPageIsFailed ==
    \A k \in DOMAIN step_results :
        LET sr == step_results[k]
        IN  sr.step.action \in {"assert_text", "assert_element", "assert_title"} =>
                \A i \in ReturnedTo(sr.ref) :
                    NothingToAssertOn(sr.step, tape[i].response) =>
                        /\ sr.status = "failed"
                        /\ sr.message # <<>>

(* ------------- properties of the counts of a result (SpecScenario) ---- *)
\* the number of step results with status 'error' (the scenario runner's
\* error_steps)
ErrorSteps(r) ==
    Len(SelectSeq(r.step_results, LAMBDA sr : sr.status = "error"))

\* C34: every StepResult stored in a TestResult has one of the statuses
\* passed, failed, error, so passed_steps + failed_steps + the number of error
\* results = total_steps; and the status of the TestResult is 'passed' if and
\* only if passed_steps = total_steps (also when there are no steps at all).
C34_FinalStatusesAndCounts ==
    \A i \in DOMAIN test_results :
        LET r == test_results[i]
        IN  /\ \A k \in DOMAIN r.step_results :
                  r.step_results[k].status \in {"passed", "failed", "error"}
            /\ PassedSteps(r) + FailedSteps(r) + ErrorSteps(r) = TotalSteps(r)
            /\ r.status = "passed" <=> PassedSteps(r) = TotalSteps(r)

\* a TestResult with one passed, one failed and one error step, whose status
\* is 'error'
C34_Witness ==
    \E i \in DOMAIN test_results :
        LET r == test_results[i]
        IN  /\ PassedSteps(r) = 1 /\ FailedSteps(r) = 1 /\ ErrorSteps(r) = 1
            /\ r.status = "error"

(* ------------- properties of calls in a row (SpecCalls) --------------- *)
\* the step made run_step_in_session return the result of an assert_url step
AssertUrlDecided ==
    /\ pc = "loop"
    /\ Len(step_results') = Len(step_results) + 1
    /\ CurStep.action = "assert_url"

\* C35: current_url is not reset when a scenario starts or a session is
\* opened: it changes only when a navigate step or a one-shot navigate has
\* succeeded, and then to the target of that navigate, on whatever session; and
\* an assert_url step passes exactly when its target is in the current_url
\* left by the last such navigate, of the same scenario or of an earlier call.
C35_UrlOutlivesSessions ==
    [][/\ current_url' # current_url =>
             \/ /\ pc = "await_tool" /\ CurStep.action = "navigate"
                /\ current_url' = CurStep.target
             \/ /\ pc = "await_oneshot" /\ entry = "navigate"
                /\ current_url' = NavigateStep.target
       /\ AssertUrlDecided =>
             (step_results'[Len(step_results')].status = "passed"
                <=> IsSubstring(Lower(CurStep.target), Lower(current_url)))]_vars

\* the first call was a one-shot navigate; the scenario of the second call, on
\* the second session, has not navigated and its assert_url step has passed
C35_Witness ==
    /\ entry = "run_scenario" /\ pc = "returned"
    /\ opened = 2
    /\ log[2].ev = "call" /\ log[2].tool = "browser_navigate" /\ log[2].ref = NoRef
    /\ Len(test_results) = 1
    /\ test_results[1].step_results[1].step.action = "assert_url"
    /\ test_results[1].step_results[1].status = "passed"

\* the step made run_scenario return
ScenarioReturns == pc = "closing" /\ pc' \in {"returned", "suite_loop"}

\* C37: test_results grows by exactly one entry, put last, with each
\* run_scenario call that returns, and is changed by nothing else; and when
\* run_suite has returned, the list it returned is the last
\* len(suite.scenarios) entries of test_results.
C37_TestResultsGrow ==
    [][/\ IF ScenarioReturns
          THEN /\ Len(test_results') = Len(test_results) + 1
               /\ SubSeq(test_results', 1, Len(test_results)) = test_results
               /\ test_results'[Len(test_results')].scenario = cur
          ELSE test_results' = test_results
       /\ (entry' = "run_suite" /\ pc' = "returned") =>
             results' = SubSeq(test_results',
                               Len(test_results') - (Len(scenarios') - given') + 1,
                               Len(test_results'))]_vars

\* run_suite has returned two results on an agent that had run a scenario before
C37_Witness ==
    /\ entry = "run_suite" /\ pc = "returned"
    /\ given = 1
    /\ Len(results) = 2
    /\ Len(test_results) = 3

\* the step sent an invocation: the log has one more entry, a call
InvocationSent ==
    /\ Len(log') = Len(log) + 1
    /\ log'[Len(log')].ev = "call"

\* C38: every invocation is sent on the session of the call, after its
\* initialize() has returned and while its channel is open; a TestResult is
\* appended to test_results only when the session of its scenario has been
\* closed; and run_suite generates its report and returns only from its loop,
\* when the last scenario of the suite has finished, with no session open.
C38_SessionBrackets ==
    [][/\ InvocationSent =>
             /\ session' # 0
             /\ session' \in open
             /\ log'[Len(log')].session = session'
             /\ \E i \in DOMAIN log : log[i].ev = "open" /\ log[i].session = session'
             /\ pc # "initializing" => session = session'
       /\ Len(test_results') > Len(test_results) =>
             /\ session # 0 /\ session \in open
             /\ session' = 0 /\ open' = {}
             /\ log'[Len(log')] = [ev |-> "close", session |-> session, tool |-> "",
                                   scenario |-> cur, ref |-> NoRef]
       /\ (entry = "run_suite" /\ pc # "returned" /\ pc' = "returned") =>
             /\ pc = "suite_loop"
             /\ cur = Len(scenarios)
             /\ Len(results) = Len(scenarios) - given
             /\ open = {} /\ session = 0]_vars

\* run_suite has returned after two scenarios, each with an invocation between
\* the opening and the closing of its own session
C38_Witness ==
    /\ entry = "run_suite" /\ pc = "returned"
    /\ Len(results) = 2
    /\ Len(log) = 6
    /\ log[2].ev = "call" /\ log[2].session = 1
    /\ log[5].ev = "call" /\ log[5].session = 2

(* ------------- properties of the kinds of step (SpecKinds) ------------ *)
\* C31: a wait step sends browser_wait with the step's target as selector, no
\* selector when the target is empty, and the step's timeout, 1000 when the
\* step has none or zero; a scroll step sends browser_scroll with the step's
\* value as direction, "down" when the value is missing or empty, and the
\* step's timeout as amount, 500 when the step has none or zero.
C31_WaitAndScrollArguments ==
    \A i \in DOMAIN log :
        (log[i].ev = "call" /\ log[i].ref # NoRef) =>
            LET step == StepAt(log[i].ref)
                args == log[i].args
                none_or_zero == TimeoutOf(step) \in {NoneVal, IntVal(0)}
                own == \A j \in 1..(i - 1) : log[j].ref # log[i].ref
            IN  /\ (step.action = "wait" /\ own) =>
                    /\ log[i].tool = "browser_wait"
                    /\ DOMAIN args = {"selector", "timeout"}
                    /\ args.selector = IF step.target = <<>> THEN NoneVal
                                       ELSE StrVal(step.target)
                    /\ args.timeout = IF none_or_zero THEN IntVal(1000)
                                      ELSE TimeoutOf(step)
                /\ (step.action = "scroll" /\ own) =>
                    /\ log[i].tool = "browser_scroll"
                    /\ DOMAIN args = {"direction", "amount"}
                    /\ args.direction =
                          IF ValueOf(step) \in {NoneVal, StrVal(<<>>)}
                          THEN StrVal(<<"d", "o", "w", "n">>) ELSE ValueOf(step)
                    /\ args.amount = IF none_or_zero THEN IntVal(500)
                                     ELSE TimeoutOf(step)

\* a wait step without target and with timeout zero was sent, with no selector
\* and timeout 1000
C31_Witness ==
    /\ pc = "returned"
    /\ Len(step_results) = 1
    /\ step_results[1].step.action = "wait"
    /\ step_results[1].step.target = <<>>
    /\ step_results[1].step.timeout = IntVal(0)
    /\ \E i \in CallsOf(step_results[1].ref) :
          log[i].args = [selector |-> NoneVal, timeout |-> IntVal(1000)]

\* the answers to the failure screenshot of the step at ref
ShotsOf(ref) == {i \in AnswersOf(ref) : tape[i].kind = "shot"}

\* the status the step of a one-step scenario has when its if-chain is left:
\* 'failed' when the result of its action is not a success
ClassifiedFailed(sr) ==
    IF sr.step.action \in InvokingActions
    THEN \E i \in ReturnedTo(sr.ref) :
            /\ tape[i].saved # "no"
            /\ ~InvokedResult(sr.step, CallToolInSession(tape[i].reply)).success
    ELSE ~LocalResult(sr.step).success

\* the failure screenshot was asked for while the step of sr was executed
Triggered(sr) ==
    LET own == IF sr.step.action \in InvokingActions THEN 1 ELSE 0
    IN  Cardinality(CallsOf(sr.ref)) > own

\* C33: executing one step makes at most two invocations on the session: at
\* most one of the tool of its action, then one of browser_screenshot if and
\* only if the classified status is 'failed' and screenshot_on_failure is
\* true; a step that ends in 'error' or 'passed' has not triggered the failure
\* screenshot.
C33_AtMostTwoInvocations ==
    /\ \A i \in DOMAIN log :
          (log[i].ev = "call" /\ log[i].ref # NoRef)
              => Cardinality(CallsOf(log[i].ref)) <= 2
    /\ \A k \in DOMAIN step_results :
          LET sr == step_results[k]
              calls == CallsOf(sr.ref)
              invoking == sr.step.action \in InvokingActions
          IN  /\ invoking =>
                    \E i \in calls : /\ log[i].tool = ToolOf(sr.step.action)
                                     /\ \A j \in calls : i <= j
              /\ Triggered(sr) =>
                    \E i \in calls : /\ log[i].tool = "browser_screenshot"
                                     /\ \A j \in calls : j <= i
              /\ Triggered(sr) <=>
                    (ClassifiedFailed(sr) /\ sr.step.screenshot_on_failure)
              /\ sr.status \in {"error", "passed"} => ~Triggered(sr)

(* ------------- properties of the server (SpecServer) ------------------ *)
\* C32: call_tool of the server raises for no tool name and no arguments: when
\* its handler raises an Exception it returns one text part that begins with
\* "Error:", and _call_tool_in_session makes of that result a response with
\* success false and error that text.
C32_ServerNeverRaises ==
    \A i \in DOMAIN io :
        LET served == io[i].served
            response == CallToolInSession(Returns(FALSE, served.content))
        IN  /\ ~served.raises
            /\ io[i].raised =>
                  /\ Len(served.content) = 1
                  /\ served.content[1].type = "text"
                  /\ Len(served.content[1].text) >= 1
                  /\ served.content[1].text[1] = "Error:"
                  /\ ~response.success
                  /\ response.error = served.content[1].text

\* browser_navigate was called without its url on a server that had no page:
\* the KeyError came back as a text
C32_Witness ==
    /\ Len(io) = 1
    /\ io[1].name = "browser_navigate"
    /\ io[1].arguments = [none |-> TRUE]
    /\ io[1].before = NoPage
    /\ io[1].raised
    /\ io[1].served.content = <<TextPart(<<"Error:", " ", "'", "url", "'">>)>>
    /\ io[1].served.page = BlankPage
    /\ page = BlankPage

(* ------------- properties of the served one-shots (SpecBrowser) ------- *)
\* a one-shot operation that looks at the page or acts on it
OnThePage == {"get_content", "click", "assert_text_present"}

\* C36: the state of the browser does not pass from one one-shot operation to
\* the next: every session begins with a server that has no page and leaves
\* current_url as it is, so after a successful navigate(url) a get_content,
\* click or assert_text_present acts on a page made for it, in which url is
\* not loaded (get_content returns its empty text, assert_text_present does
\* not find the text of url), while current_url is still url.
C36_NoBrowserStateBetweenOneShots ==
    [][/\ (pc = "opening" /\ pc' = "initializing")
            => (page' = NoPage /\ current_url' = current_url)
       /\ (pc = "await_oneshot" /\ pc' \in {"returned", "raised"}
           /\ entry \in OnThePage /\ current_url = NavigateStep.target)
            => /\ page = NoPage
               /\ page' \in {NoPage, BlankPage}
               /\ page' # LoadedPage(NavigateStep.target)
               /\ current_url' = NavigateStep.target
               /\ (entry = "get_content" /\ pc' = "returned")
                     => result'.value.text = BodyText(BlankPage)
               /\ (entry = "assert_text_present" /\ pc' = "returned")
                     => ~result'.value.present]_vars

\* navigate(url) succeeded and loaded url, then get_content returned the text
\* of a blank page while current_url is url
C36_Witness ==
    /\ entry = "get_content"
    /\ pc = "returned"
    /\ Len(io) = 2
    /\ io[1].name = "browser_navigate"
    /\ io[1].served.page = LoadedPage(NavigateStep.target)
    /\ io[2].before = NoPage
    /\ io[2].served.page = BlankPage
    /\ page = BlankPage
    /\ current_url = NavigateStep.target
    /\ result.value.text = <<>>

(* ------------- properties of a suite run to its end (SpecLive) -------- *)
\* the steps the scenarios declare, over their three phases
RECURSIVE DeclaredSteps(_)
DeclaredSteps(scs) ==
    IF scs = <<>> THEN 0
    ELSE Len(Head(scs).setup_steps) + Len(Head(scs).steps)
         + Len(Head(scs).teardown_steps) + DeclaredSteps(Tail(scs))

\* the invocations made so far
InvocationsMade == Cardinality({i \in DOMAIN log : log[i].ev = "call"})

====
